---------------------------- MODULE Spec2Model ----------------------------
(***************************************************************************)
(* Model of the compliance and coordination engine of the TGA plan check:  *)
(* TGACoordinator (backend/agent_core/tga_coordinator.py) and CheckEngine  *)
(* (backend/agent_core/tga_pipeline.py).                                   *)
(*                                                                         *)
(* Numbers are fixed-point integers.  Confidence scores are hundredths     *)
(* (0.85 -> 85).  Powers are multiples of 1e-6 kW, lengths of the SuD      *)
(* check are multiples of 0.1 mm, so that the thresholds of the source     *)
(* (1e-6 kW, 0.02 m, 10 %, 0.10 m) are exact integers.                     *)
(*                                                                         *)
(* A Python value that may be None is a sequence of length at most one:    *)
(* None is << >> and a present value v is << v >>.                         *)
(***************************************************************************)
EXTENDS Integers, Sequences, FiniteSets, Bags, TLC

VARIABLES
    dokumente,            \* auftrag.dokumente, per order object
    auftrag_id,           \* PruefAuftrag.id, per order object
    status,               \* PruefAuftrag.status, per order object
    aktive_auftraege,     \* TGACoordinator.aktive_auftraege: id -> order object
    ergebnisse,           \* TGACoordinator.ergebnisse: id -> stored findings
    pc,                   \* position of the starte_pruefung coroutine, per order object
    formale_befunde,      \* local of starte_pruefung
    fach_befunde,         \* local of starte_pruefung
    koordinations_befunde,\* local of starte_pruefung
    gewerk_ergebnisse,    \* results of the _pruefe_gewerk tasks, per order object and trade
    exception,            \* exception that left starte_pruefung, per order object
    evaluator_verhalten,  \* what each trade's evaluator does with its context
    abschluss,            \* the trades whose task is done, in completion order, per order object
    eingabe,              \* argument of the function under check (function specifications)
    ausgabe,              \* its return value
    lokale,               \* its local collections at return
    schritt               \* "bereit" before the call, "fertig" after it

vars == << dokumente, auftrag_id, status, aktive_auftraege, ergebnisse, pc,
           formale_befunde, fach_befunde, koordinations_befunde,
           gewerk_ergebnisse, exception, evaluator_verhalten, abschluss,
           eingabe, ausgabe, lokale, schritt >>

runVars == << dokumente, auftrag_id, status, aktive_auftraege, ergebnisse, pc,
              formale_befunde, fach_befunde, koordinations_befunde,
              gewerk_ergebnisse, exception, evaluator_verhalten, abschluss >>

funcVars == << eingabe, ausgabe, lokale, schritt >>

---------------------------------------------------------------------------
(* Python values *)

None == << >>

Some(v) == << v >>

IsNone(o) == o = << >>

\* raw values of a mapping: a number, a string that float() reads as wert
\* (after "," became "."), or a non-empty string float() rejects
Zahl(n) == [ art |-> "zahl", wert |-> n ]

Text(n) == [ art |-> "text", wert |-> n ]

Unlesbar == [ art |-> "unlesbar", wert |-> 0 ]

\* truth value of an optional number: None and 0 are falsy
TruthyNum(o) == IF o = << >> THEN FALSE ELSE o[1].art # "zahl" \/ o[1].wert # 0

\* truth value of an optional string: None and "" are falsy
TruthyStr(o) == IF o = << >> THEN FALSE ELSE o[1] # ""

\* a or b or c ... over optional numbers: the first truthy operand, else the last
RECURSIVE OrNum(_)
OrNum(ops) ==
    IF Len(ops) = 1 THEN ops[1]
    ELSE IF TruthyNum(ops[1]) THEN ops[1] ELSE OrNum(Tail(ops))

\* a or b or c ... over optional strings
RECURSIVE OrStr(_)
OrStr(ops) ==
    IF Len(ops) = 1 THEN ops[1]
    ELSE IF TruthyStr(ops[1]) THEN ops[1] ELSE OrStr(Tail(ops))

Max(a, b) == IF a >= b THEN a ELSE b

Min(a, b) == IF a <= b THEN a ELSE b

Abs(a) == IF a < 0 THEN 0 - a ELSE a

RECURSIVE Flatten(_)
Flatten(seqs) == IF seqs = << >> THEN << >> ELSE Head(seqs) \o Flatten(Tail(seqs))

\* str.lower() on the strings of the model
Lower(s) ==
    CASE s = "EG" -> "eg"
      [] s = "OG" -> "og"
      [] s = "HK1" -> "hk1"
      [] s = " HK1" -> " hk1"
      [] s = "WP" -> "wp"
      [] s = "D1" -> "d1"
      [] s = "D1 " -> "d1 "
      [] s = "D2" -> "d2"
      [] s = "Kaltwasserleitung" -> "kaltwasserleitung"
      [] s = "Warmwasser " -> "warmwasser "
      [] s = "Warmwasser" -> "warmwasser"
      [] s = "KW" -> "kw"
      [] s = "WW" -> "ww"
      [] s = "AW" -> "aw"
      [] s = "ZU" -> "zu"
      [] s = "Abwasser" -> "abwasser"
      [] s = "Zuluft" -> "zuluft"
      [] s = "Abluft/Fortluft" -> "abluft/fortluft"
      [] s = "verzinkter Stahl" -> "verzinkter stahl"
      [] s = "Verzinkter Stahl" -> "verzinkter stahl"
      [] s = "Gaskessel" -> "gaskessel"
      [] s = "Waermepumpe" -> "waermepumpe"
      [] s = "Wärmeerzeuger" -> "wärmeerzeuger"
      [] s = "KG420" -> "kg420"
      [] s = "HVAC" -> "hvac"
      [] s = "Hoch" -> "hoch"
      [] OTHER -> s

\* str.strip() on the strings of the model
Strip(s) ==
    CASE s = " HK1" -> "HK1"
      [] s = " hk1" -> "hk1"
      [] s = "D1 " -> "D1"
      [] s = "d1 " -> "d1"
      [] s = "Warmwasser " -> "Warmwasser"
      [] s = "warmwasser " -> "warmwasser"
      [] s = " " -> ""
      [] OTHER -> s

---------------------------------------------------------------------------
(* Types of tga_coordinator.py *)

GewerkeType ==
    { "kg410_sanitaer", "kg420_heizung", "kg430_lueftung", "kg440_elektro",
      "kg450_kommunikation", "kg474_feuerloeschung", "kg480_automation" }

\* Finding of the coordinator; beschreibung keeps the quoted values
Finding(id, document_id, gewerk, kategorie, prioritaet, titel, werte, plan_referenz, agent_quelle, konfidenz_score) ==
    [ id |-> id, document_id |-> document_id, gewerk |-> gewerk,
      kategorie |-> kategorie, prioritaet |-> prioritaet, titel |-> titel,
      beschreibung |-> werte, plan_referenz |-> plan_referenz,
      agent_quelle |-> agent_quelle, konfidenz_score |-> konfidenz_score ]

---------------------------------------------------------------------------
(* _bewerte_befunde *)

\* the priority table of the sort key
PrioRang == [ hoch |-> 3, mittel |-> 2, niedrig |-> 1 ]

\* key tuple (rank, confidence); only evaluated where the table has the priority
SortKey(f) == << PrioRang[f.prioritaet], f.konfidenz_score >>

\* variant that compares the rank alone
KeyLessNurRang(k1, k2) == k1[1] < k2[1]

\* tuple comparison of two keys
KeyLess(k1, k2) == k1[1] < k2[1] \/ (k1[1] = k2[1] /\ k1[2] < k2[2])

\* position of f in the descending list s: behind every element whose key is
\* not smaller, which keeps the input order of equal keys (sorted is stable,
\* also with reverse=True)
RECURSIVE InsertDesc(_, _)
InsertDesc(f, s) ==
    IF s = << >> THEN << f >>
    ELSE IF KeyLess(SortKey(Head(s)), SortKey(f)) THEN << f >> \o s
    ELSE << Head(s) >> \o InsertDesc(f, Tail(s))

RECURSIVE SortedDesc(_, _)
SortedDesc(befunde, acc) ==
    IF befunde = << >> THEN acc
    ELSE SortedDesc(Tail(befunde), InsertDesc(Head(befunde), acc))

\* the lookup {"hoch": 3, ...}[x.prioritaet] raises KeyError for any other priority
BewerteBefunde(befunde) ==
    IF \E i \in 1..Len(befunde) : befunde[i].prioritaet \notin DOMAIN PrioRang
    THEN [ exc |-> "KeyError", wert |-> << >> ]
    ELSE [ exc |-> "none", wert |-> SortedDesc(befunde, << >>) ]

---------------------------------------------------------------------------
(* _pruefe_kollisionen *)

\* _to_float: None stays None, a number or a readable string gives its value,
\* anything else gives None
ToFloat(v) ==
    IF v = None THEN None
    ELSE IF v[1].art = "unlesbar" THEN None
    ELSE Some(v[1].wert)

\* value of the first of keys that is present in the mapping, converted; None
\* when no key is present (a present key with value None also ends the search)
RECURSIVE FirstPresent(_, _)
FirstPresent(raw_bbox, keys) ==
    IF keys = << >> THEN None
    ELSE IF Head(keys) \in DOMAIN raw_bbox THEN ToFloat(raw_bbox[Head(keys)])
    ELSE FirstPresent(raw_bbox, Tail(keys))

\* variant of _pair that returns the two values as they were read
PairOhneTausch(raw_bbox, min_keys, max_keys, origin_keys, size_keys) ==
    LET min_value == FirstPresent(raw_bbox, min_keys)
        max_value == FirstPresent(raw_bbox, max_keys)
        origin_value == FirstPresent(raw_bbox, origin_keys)
        size_value == FirstPresent(raw_bbox, size_keys)
    IN  IF min_value = None \/ max_value = None
        THEN IF origin_value = None \/ size_value = None
             THEN None
             ELSE Some(<< origin_value[1], origin_value[1] + size_value[1] >>)
        ELSE Some(<< min_value[1], max_value[1] >>)

\* _pair: (min, max) from the min/max keys, else from origin and size; swapped
\* when min > max; None when neither form is complete
Pair(raw_bbox, min_keys, max_keys, origin_keys, size_keys) ==
    LET min_value == FirstPresent(raw_bbox, min_keys)
        max_value == FirstPresent(raw_bbox, max_keys)
        origin_value == FirstPresent(raw_bbox, origin_keys)
        size_value == FirstPresent(raw_bbox, size_keys)
        Ordered(lo, hi) == IF lo > hi THEN Some(<< hi, lo >>) ELSE Some(<< lo, hi >>)
    IN  IF min_value = None \/ max_value = None
        THEN IF origin_value = None \/ size_value = None
             THEN None
             ELSE Ordered(origin_value[1], origin_value[1] + size_value[1])
        ELSE Ordered(min_value[1], max_value[1])

\* _normiere_bbox: None without a usable x or y extent; z collapses to (0, 0)
NormiereBbox(raw_bbox) ==
    LET x_pair == Pair(raw_bbox, << "x_min", "xmin" >>, << "x_max", "xmax" >>,
                       << "x", "origin_x" >>, << "width", "breite", "dx" >>)
        y_pair == Pair(raw_bbox, << "y_min", "ymin" >>, << "y_max", "ymax" >>,
                       << "y", "origin_y" >>, << "depth", "tiefe", "dy", "laenge" >>)
        z_pair == Pair(raw_bbox, << "z_min", "zmin" >>, << "z_max", "zmax" >>,
                       << "z", "origin_z", "niveau" >>, << "height", "hoehe", "dz" >>)
        z == IF z_pair = None THEN << 0, 0 >> ELSE z_pair[1]
    IN  IF x_pair = None \/ y_pair = None THEN None
        ELSE Some([ x_min |-> x_pair[1][1], x_max |-> x_pair[1][2],
                    y_min |-> y_pair[1][1], y_max |-> y_pair[1][2],
                    z_min |-> z[1], z_max |-> z[2] ])

\* the mapping {}
EmptyMapping == [ k \in {} |-> None ]

\* element.get("bbox") or element.get("bounding_box") or {}: an empty mapping is falsy
BboxRaw(element) ==
    IF element.bbox # None /\ DOMAIN element.bbox[1] # {} THEN element.bbox[1]
    ELSE IF element.bounding_box # None THEN element.bounding_box[1]
    ELSE EmptyMapping

\* the entries of one document (first loop of _pruefe_kollisionen)
GeometrieEintraegeVon(dokument) ==
    LET metadata == dokument.metadaten
        geometrie == metadata.geometrie
        elemente == IF geometrie = None THEN << >> ELSE geometrie[1].elemente
        geo_level == IF geometrie = None THEN None ELSE geometrie[1].level
        geo_plan_ref == IF geometrie = None THEN None ELSE geometrie[1].plan_ref
        Eintrag(element) ==
            LET bbox == NormiereBbox(BboxRaw(element))
            IN  IF bbox = None THEN << >>
                ELSE << [ dokument |-> dokument,
                          element |-> element,
                          bbox |-> bbox[1],
                          level |-> OrStr(<< element.level, geo_level, metadata.geschoss >>),
                          plan_ref |-> OrStr(<< element.plan_ref, geo_plan_ref,
                                               dokument.plan_nummer,
                                               Some(dokument.filename) >>)[1] ] >>
    IN  Flatten([ i \in 1..Len(elemente) |-> Eintrag(elemente[i]) ])

GeometrieEintraege(docs) ==
    Flatten([ d \in 1..Len(docs) |-> GeometrieEintraegeVon(docs[d]) ])

\* variant of _axis_overlap that starts the shared interval at the second
\* extent's minimum
AxisOverlapVomZweiten(min_a, max_a, min_b, max_b) ==
    LET start == min_b
        end == Min(max_a, max_b)
    IN  IF end <= start THEN None ELSE Some(<< start, end >>)

\* _axis_overlap: the shared interval, None when it is empty or a single point
AxisOverlap(min_a, max_a, min_b, max_b) ==
    LET start == Max(min_a, min_b)
        end == Min(max_a, max_b)
    IN  IF end <= start THEN None ELSE Some(<< start, end >>)

\* variant that counts every pair without vertical overlap as flat
UeberlappungOhneHoehe(a, b) ==
    LET x_overlap == AxisOverlap(a.x_min, a.x_max, b.x_min, b.x_max)
        y_overlap == AxisOverlap(a.y_min, a.y_max, b.y_min, b.y_max)
    IN  IF x_overlap = None \/ y_overlap = None THEN None
        ELSE Some([ x |-> x_overlap[1][2] - x_overlap[1][1],
                    y |-> y_overlap[1][2] - y_overlap[1][1],
                    z |-> 0 ])

\* _ueberlappung: extents of the shared box; without vertical overlap only two
\* boxes with z_min = z_max = 0 count (2-D fallback)
Ueberlappung(a, b) ==
    LET x_overlap == AxisOverlap(a.x_min, a.x_max, b.x_min, b.x_max)
        y_overlap == AxisOverlap(a.y_min, a.y_max, b.y_min, b.y_max)
        z_overlap == AxisOverlap(a.z_min, a.z_max, b.z_min, b.z_max)
        flach == a.z_max = a.z_min /\ a.z_min = 0 /\ b.z_max = b.z_min /\ b.z_min = 0
    IN  IF x_overlap = None \/ y_overlap = None THEN None
        ELSE IF z_overlap = None /\ ~flach THEN None
        ELSE Some([ x |-> x_overlap[1][2] - x_overlap[1][1],
                    y |-> y_overlap[1][2] - y_overlap[1][1],
                    z |-> IF z_overlap = None THEN 0
                          ELSE z_overlap[1][2] - z_overlap[1][1] ])

\* str(element.get('id')) inside the finding id
IdText(o) == IF o = None THEN "None" ELSE o[1]

\* element.get('id') or element.get('name') inside the description
IdOderName(element) == IdText(OrStr(<< element.id, element.name >>))

\* body of the pair loop: the findings for the ordered pair (a, b) of entries
KollisionsBefund(eintrag_a, eintrag_b) ==
    LET dokument_a == eintrag_a.dokument
        dokument_b == eintrag_b.dokument
        level_a == eintrag_a.level
        level_b == eintrag_b.level
        overlap == Ueberlappung(eintrag_a.bbox, eintrag_b.bbox)
        flaechenueberdeckung == overlap[1].x * overlap[1].y
    IN  IF dokument_a.gewerk = dokument_b.gewerk THEN << >>
        ELSE IF TruthyStr(level_a) /\ TruthyStr(level_b)
                /\ Lower(level_a[1]) # Lower(level_b[1]) THEN << >>
        ELSE IF overlap = None THEN << >>
        ELSE IF flaechenueberdeckung <= 0 THEN << >>
        ELSE << Finding(
                  << "kollision", dokument_a.id, IdText(eintrag_a.element.id),
                     dokument_b.id, IdText(eintrag_b.element.id) >>,
                  dokument_a.id, dokument_a.gewerk, "koordination", "hoch",
                  "Geometrische Kollision zwischen Gewerken",
                  [ text |-> << IdOderName(eintrag_a.element), dokument_a.gewerk,
                                IdOderName(eintrag_b.element), dokument_b.gewerk >>,
                    zahlen |-> << flaechenueberdeckung >>
                               \o (IF overlap[1].z > 0 THEN << overlap[1].z >> ELSE << >>) ],
                  << eintrag_a.plan_ref, eintrag_b.plan_ref >>,
                  "coordination_agent", 85) >>

\* _pruefe_kollisionen: every entry against every later entry
PruefeKollisionen(docs) ==
    LET geometrie_eintraege == GeometrieEintraege(docs)
        n == Len(geometrie_eintraege)
        Ab(index) ==
            Flatten([ k \in 1..(n - index) |->
                        KollisionsBefund(geometrie_eintraege[index],
                                         geometrie_eintraege[index + k]) ])
    IN  Flatten([ index \in 1..n |-> Ab(index) ])

---------------------------------------------------------------------------
(* _pruefe_schnittstellen *)

\* tolerance of the capacity comparison, 1e-6 kW
Epsilon == 1

\* one tenth of a kW in the unit of the model
ZehntelKw == 100000

\* f"{v:.1f}": the nearest multiple of einheit, ties to the even multiple
Runde(v, einheit) ==
    LET q == v \div einheit
        r == v % einheit
    IN  IF 2 * r < einheit THEN q
        ELSE IF 2 * r > einheit THEN q + 1
        ELSE IF q % 2 = 0 THEN q ELSE q + 1

\* the supplies of one electrical document, in entry order (entries without a
\* reference are skipped)
VersorgungenVon(dokument) ==
    LET metadata == dokument.metadaten
        schnittstellen == metadata.schnittstellen
        versorgungen == IF schnittstellen = None THEN << >>
                        ELSE schnittstellen[1].versorgungen
        Eintrag(eintrag) ==
            LET referenz == Strip(OrStr(<< eintrag.referenz, eintrag.kreis, eintrag.id,
                                           eintrag.name, Some("") >>)[1])
                kapazitaet == ToFloat(OrNum(<< eintrag.kapazitaet_kw, eintrag.leistung_kw,
                                               eintrag.anschlussleistung_kw,
                                               eintrag.kapazitaet >>))
            IN  IF referenz = "" THEN << >>
                ELSE << [ key |-> Lower(referenz),
                          kapazitaet |-> kapazitaet,
                          plan_ref |-> OrStr(<< eintrag.plan_ref, metadata.plan_ref,
                                               dokument.plan_nummer,
                                               Some(dokument.filename) >>)[1],
                          dokument |-> dokument ] >>
    IN  IF dokument.gewerk # "kg440_elektro" THEN << >>
        ELSE Flatten([ i \in 1..Len(versorgungen) |-> Eintrag(versorgungen[i]) ])

\* variant in which the first supply with a key is kept
ElektroSchnittstellenErste(docs) ==
    LET liste == Flatten([ d \in 1..Len(docs) |-> VersorgungenVon(docs[d]) ])
        keys == { liste[i].key : i \in 1..Len(liste) }
        Erster(k) == CHOOSE i \in 1..Len(liste) :
                         /\ liste[i].key = k
                         /\ \A j \in 1..Len(liste) : liste[j].key = k => i <= j
    IN  [ k \in keys |-> [ kapazitaet |-> liste[Erster(k)].kapazitaet,
                           plan_ref |-> liste[Erster(k)].plan_ref,
                           dokument |-> liste[Erster(k)].dokument ] ]

\* elektro_schnittstellen: a later supply with the same key replaces the earlier one
ElektroSchnittstellen(docs) ==
    LET liste == Flatten([ d \in 1..Len(docs) |-> VersorgungenVon(docs[d]) ])
        keys == { liste[i].key : i \in 1..Len(liste) }
        Letzter(k) == CHOOSE i \in 1..Len(liste) :
                         /\ liste[i].key = k
                         /\ \A j \in 1..Len(liste) : liste[j].key = k => j <= i
    IN  [ k \in keys |-> [ kapazitaet |-> liste[Letzter(k)].kapazitaet,
                           plan_ref |-> liste[Letzter(k)].plan_ref,
                           dokument |-> liste[Letzter(k)].dokument ] ]

\* the requirements of one heating document, in entry order
HeizungSchnittstellenVon(dokument) ==
    LET metadata == dokument.metadaten
        schnittstellen == metadata.schnittstellen
        elektro == IF schnittstellen = None THEN << >> ELSE schnittstellen[1].elektro
        Eintrag(eintrag) ==
            [ eintrag |-> eintrag,
              dokument |-> dokument,
              leistung |-> ToFloat(OrNum(<< eintrag.leistung_kw,
                                            eintrag.anschlussleistung_kw,
                                            eintrag.leistung >>)),
              versorgung |-> Strip(OrStr(<< eintrag.versorgung, eintrag.kreis,
                                            eintrag.referenz, Some("") >>)[1]),
              plan_ref |-> OrStr(<< eintrag.plan_ref, metadata.plan_ref,
                                    dokument.plan_nummer, Some(dokument.filename) >>)[1] ]
    IN  IF dokument.gewerk # "kg420_heizung" THEN << >>
        ELSE [ i \in 1..Len(elektro) |-> Eintrag(elektro[i]) ]

HeizungSchnittstellen(docs) ==
    Flatten([ d \in 1..Len(docs) |-> HeizungSchnittstellenVon(docs[d]) ])

\* variant that compares without the tolerance
UnterdimensioniertOhneEpsilon(kapazitaet, leistung) == kapazitaet < leistung

\* capacity + 1e-6 < demand
Unterdimensioniert(kapazitaet, leistung) == kapazitaet + Epsilon < leistung

\* body of the requirement loop: the findings for one requirement
SchnittstellenBefund(entry, elektro_schnittstellen) ==
    LET dokument == entry.dokument
        leistung == entry.leistung
        versorgung == Lower(entry.versorgung)
        elektro == elektro_schnittstellen[versorgung]
        kapazitaet == elektro.kapazitaet
        Befund(id_teile, prioritaet, titel, werte, plan_referenz, konfidenz) ==
            Finding(<< "schnittstelle", dokument.id >> \o id_teile, dokument.id,
                    dokument.gewerk, "koordination", prioritaet, titel, werte,
                    plan_referenz, "coordination_agent", konfidenz)
    IN  IF versorgung = ""
        THEN << Befund(<< "ohne_zuordnung" >>, "mittel",
                       "Heizungsanschluss ohne Elektro-Zuordnung",
                       [ text |-> << >>, zahlen |-> << >> ],
                       << entry.plan_ref >>, 75) >>
        ELSE IF versorgung \notin DOMAIN elektro_schnittstellen
        THEN << Befund(<< versorgung, "fehlt" >>, "mittel",
                       "Versorgungskreis in Elektroplanung fehlt",
                       [ text |-> << versorgung >>, zahlen |-> << >> ],
                       << entry.plan_ref >>, 80) >>
        ELSE IF leistung = None \/ leistung[1] <= 0 THEN << >>
        ELSE IF kapazitaet = None
        THEN << Befund(<< versorgung, "unbekannt" >>, "mittel",
                       "Fehlende Kapazitätsangabe Elektro",
                       [ text |-> << versorgung >>,
                         zahlen |-> << Runde(leistung[1], ZehntelKw) >> ],
                       << entry.plan_ref, elektro.plan_ref >>, 70) >>
        ELSE IF Unterdimensioniert(kapazitaet[1], leistung[1])
        THEN << Befund(<< versorgung, "unterdimensioniert" >>, "hoch",
                       "Elektrische Leistung für Wärmeerzeuger unzureichend",
                       [ text |-> << versorgung >>,
                         zahlen |-> << Runde(kapazitaet[1], ZehntelKw),
                                       Runde(leistung[1], ZehntelKw),
                                       Runde(leistung[1] - kapazitaet[1], ZehntelKw) >> ],
                       << entry.plan_ref, elektro.plan_ref >>, 90) >>
        ELSE << >>

\* _pruefe_schnittstellen
PruefeSchnittstellen(docs) ==
    LET elektro_schnittstellen == ElektroSchnittstellen(docs)
        heizung_schnittstellen == HeizungSchnittstellen(docs)
    IN  Flatten([ i \in 1..Len(heizung_schnittstellen) |->
                    SchnittstellenBefund(heizung_schnittstellen[i],
                                         elektro_schnittstellen) ])

---------------------------------------------------------------------------
(* _pruefe_sud_planung *)

\* 0.02 m, the smallest dimension tolerance
MinToleranz == 200

\* 0.10 m, the position tolerance
LageToleranz == 1000

\* 0.01 m, the resolution of the quoted lengths
Zentimeter == 100

\* _parse_dimensions: (breite, hoehe), or the diameter twice when one of them is missing
ParseDimensions(data) ==
    LET breite == ToFloat(OrNum(<< data.breite, data.width >>))
        hoehe == ToFloat(OrNum(<< data.hoehe, data.height >>))
        durchmesser == ToFloat(OrNum(<< data.durchmesser, data.diameter >>))
    IN  IF durchmesser # None /\ (breite = None \/ hoehe = None)
        THEN Some(<< durchmesser[1], durchmesser[1] >>)
        ELSE IF breite = None \/ hoehe = None THEN None
        ELSE Some(<< breite[1], hoehe[1] >>)

\* _parse_position: (x, y) when both coordinates are found
ParsePosition(data) ==
    LET x == ToFloat(OrNum(<< data.x, data.pos_x >>))
        y == ToFloat(OrNum(<< data.y, data.pos_y >>))
    IN  IF x = None \/ y = None THEN None ELSE Some(<< x[1], y[1] >>)

\* entry.get(key) or entry: the nested mapping when it is given, else the entry
Verschachtelt(nested, entry) == IF nested # None THEN nested[1] ELSE entry

\* the requirements of one document, in entry order (entries without an id are skipped)
AnforderungenVon(dokument) ==
    LET metadata == dokument.metadaten
        sud == metadata.sud
        liste == IF sud = None THEN << >> ELSE sud[1].anforderungen
        sud_plan_ref == IF sud = None THEN None ELSE sud[1].plan_ref
        Eintrag(anforderung) ==
            LET ident == Strip(OrStr(<< anforderung.id, anforderung.referenz,
                                        Some("") >>)[1])
            IN  IF ident = "" THEN << >>
                ELSE << [ id |-> ident,
                          dokument |-> dokument,
                          plan_ref |-> OrStr(<< anforderung.plan_ref, sud_plan_ref,
                                               dokument.plan_nummer,
                                               Some(dokument.filename) >>)[1],
                          geschoss |-> OrStr(<< anforderung.geschoss, metadata.geschoss >>),
                          dimensionen |-> ParseDimensions(
                              Verschachtelt(anforderung.dimensionen, anforderung)),
                          position |-> ParsePosition(
                              Verschachtelt(anforderung.lage, anforderung)) ] >>
    IN  Flatten([ i \in 1..Len(liste) |-> Eintrag(liste[i]) ])

Anforderungen(docs) == Flatten([ d \in 1..Len(docs) |-> AnforderungenVon(docs[d]) ])

\* the confirmations of one document with their keys, in entry order
BestaetigungenVon(dokument) ==
    LET metadata == dokument.metadaten
        sud == metadata.sud
        liste == IF sud = None THEN << >> ELSE sud[1].bestaetigt
        sud_plan_ref == IF sud = None THEN None ELSE sud[1].plan_ref
        Eintrag(bestaetigung) ==
            LET ident == Strip(OrStr(<< bestaetigung.referenz, bestaetigung.id,
                                        bestaetigung.zuordnung, Some("") >>)[1])
            IN  IF ident = "" THEN << >>
                ELSE << [ key |-> Lower(ident),
                          dokument |-> dokument,
                          plan_ref |-> OrStr(<< bestaetigung.plan_ref, sud_plan_ref,
                                               dokument.plan_nummer,
                                               Some(dokument.filename) >>)[1],
                          geschoss |-> OrStr(<< bestaetigung.geschoss, metadata.geschoss >>),
                          dimensionen |-> ParseDimensions(
                              Verschachtelt(bestaetigung.dimensionen, bestaetigung)),
                          position |-> ParsePosition(
                              Verschachtelt(bestaetigung.lage, bestaetigung)),
                          status |-> bestaetigung.status ] >>
    IN  Flatten([ i \in 1..Len(liste) |-> Eintrag(liste[i]) ])

\* variant that lists the confirmations of a key from the last to the first
BestaetigungenLetzteZuerst(docs) ==
    LET liste == Flatten([ d \in 1..Len(docs) |-> BestaetigungenVon(docs[d]) ])
        keys == { liste[i].key : i \in 1..Len(liste) }
        Rueckwaerts(s) == [ i \in 1..Len(s) |-> s[Len(s) + 1 - i] ]
    IN  [ k \in keys |-> Rueckwaerts(SelectSeq(liste, LAMBDA b : b.key = k)) ]

\* bestaetigungen: key -> the confirmations with that key, in document and entry order
Bestaetigungen(docs) ==
    LET liste == Flatten([ d \in 1..Len(docs) |-> BestaetigungenVon(docs[d]) ])
        keys == { liste[i].key : i \in 1..Len(liste) }
    IN  [ k \in keys |-> SelectSeq(liste, LAMBDA b : b.key = k) ]

\* variant without the smallest tolerance
ToleranzOhneMinimum(soll_dim) == Max(soll_dim[1], soll_dim[2]) \div 10

\* max(0.02, 0.1 * max(soll_dim))
Toleranz(soll_dim) == Max(MinToleranz, Max(soll_dim[1], soll_dim[2]) \div 10)

\* the dimension test of the requirement loop
AbmessungWeichtAb(soll_dim, ist_dim) ==
    LET delta_breite == Abs(soll_dim[1] - ist_dim[1])
        delta_hoehe == Abs(soll_dim[2] - ist_dim[2])
        toleranz == Toleranz(soll_dim)
    IN  delta_breite > toleranz \/ delta_hoehe > toleranz

\* variant that looks at x alone
LageWeichtAbNurX(soll_pos, ist_pos) == Abs(soll_pos[1] - ist_pos[1]) > LageToleranz

\* the position test of the requirement loop
LageWeichtAb(soll_pos, ist_pos) ==
    LET delta_x == Abs(soll_pos[1] - ist_pos[1])
        delta_y == Abs(soll_pos[2] - ist_pos[2])
    IN  delta_x > LageToleranz \/ delta_y > LageToleranz

\* body of the requirement loop: the findings for one requirement
SudBefund(anforderung, bestaetigungen) ==
    LET ident == Lower(anforderung.id)
        dokument == anforderung.dokument
        passende_bestaetigungen ==
            IF ident \in DOMAIN bestaetigungen THEN bestaetigungen[ident] ELSE << >>
        bestaetigung == passende_bestaetigungen[1]
        soll_dim == anforderung.dimensionen
        ist_dim == bestaetigung.dimensionen
        soll_pos == anforderung.position
        ist_pos == bestaetigung.position
        Befund(art, prioritaet, titel, werte, plan_referenz, konfidenz) ==
            Finding(<< "sud", dokument.id, ident, art >>, dokument.id, dokument.gewerk,
                    "koordination", prioritaet, titel, werte, plan_referenz,
                    "coordination_agent", konfidenz)
        beide == << anforderung.plan_ref, bestaetigung.plan_ref >>
    IN  IF passende_bestaetigungen = << >>
        THEN << Befund("fehlend", "hoch", "SuD-Durchbruch nicht bestätigt",
                       [ text |-> << >>, zahlen |-> << >> ],
                       << anforderung.plan_ref >>, 85) >>
        ELSE IF /\ TruthyStr(anforderung.geschoss) /\ TruthyStr(bestaetigung.geschoss)
                /\ Lower(anforderung.geschoss[1]) # Lower(bestaetigung.geschoss[1])
        THEN << Befund("geschoss", "mittel", "SuD-Durchbruch falsches Geschoss",
                       [ text |-> << >>, zahlen |-> << >> ], beide, 75) >>
        ELSE IF /\ soll_dim # None /\ ist_dim # None
                /\ AbmessungWeichtAb(soll_dim[1], ist_dim[1])
        THEN << Befund("abmessung", "mittel", "SuD-Abmessungen weichen ab",
                       [ text |-> << >>,
                         zahlen |-> << Runde(soll_dim[1][1], Zentimeter),
                                       Runde(soll_dim[1][2], Zentimeter),
                                       Runde(ist_dim[1][1], Zentimeter),
                                       Runde(ist_dim[1][2], Zentimeter) >> ],
                       beide, 80) >>
        ELSE IF /\ soll_pos # None /\ ist_pos # None
                /\ LageWeichtAb(soll_pos[1], ist_pos[1])
        THEN << Befund("lage", "mittel", "SuD-Lageabweichung",
                       [ text |-> << >>,
                         zahlen |-> << Runde(Abs(soll_pos[1][1] - ist_pos[1][1]), Zentimeter),
                                       Runde(Abs(soll_pos[1][2] - ist_pos[1][2]), Zentimeter) >> ],
                       beide, 78) >>
        ELSE << >>

\* _pruefe_sud_planung
PruefeSudPlanung(docs) ==
    LET anforderungen == Anforderungen(docs)
        bestaetigungen == Bestaetigungen(docs)
    IN  Flatten([ i \in 1..Len(anforderungen) |->
                    SudBefund(anforderungen[i], bestaetigungen) ])

---------------------------------------------------------------------------
(* formal check (VDI 6026) *)

\* _MANDATORY_LEGEND_KEYWORDS, each set in sorted order
MandatoryLegendKeywords ==
    [ kg410_sanitaer |-> << "abwasser", "kaltwasser", "warmwasser" >>,
      kg420_heizung |-> << "heizkörper", "rücklauf", "vorlauf" >>,
      kg430_lueftung |-> << "abluft", "fortluft", "zuluft" >>,
      kg440_elektro |-> << "beleuchtung", "hauptverteilung", "steckdose" >>,
      kg450_kommunikation |-> << "daten", "kommunikation", "netzwerk" >>,
      kg474_feuerloeschung |-> << "brandmelder", "hydrant", "sprinkler" >>,
      kg480_automation |-> << "aktor", "sensor", "steuerung" >> ]

\* keyword in term, on the legend terms of the model
Enthaelt(term, keyword) ==
    \/ term = keyword
    \/ term = "kaltwasserleitung" /\ keyword = "kaltwasser"
    \/ term = "abluft/fortluft" /\ keyword \in { "abluft", "fortluft" }

\* _collect_legend_terms for {"symbole": [mapping, ...]}: the values of every
\* entry, stripped and lower-cased, without the empty ones
CollectLegendTerms(legend_data) ==
    LET werte == Flatten(legend_data.symbole)
        normalized == [ i \in 1..Len(werte) |-> Lower(Strip(werte[i])) ]
    IN  SelectSeq(normalized, LAMBDA t : t # "")

\* the legend the check works with: the one in the metadata, else the one
\* extracted from the file
LegendData(dokument) ==
    IF dokument.metadaten.legende # None THEN dokument.metadaten.legende
    ELSE dokument.datei_legende

\* variant that reports a legend without evaluable terms as incomplete
PruefeVdi6026KonformitaetOhneHinweis(dokument) ==
    LET legend_data == LegendData(dokument)
        mandatory_keywords == MandatoryLegendKeywords[dokument.gewerk]
        legend_terms == CollectLegendTerms(legend_data[1])
        missing_keywords ==
            SelectSeq(mandatory_keywords,
                      LAMBDA keyword :
                          ~ \E i \in 1..Len(legend_terms) : Enthaelt(legend_terms[i], keyword))
        Befund(art, prioritaet, titel, werte, konfidenz) ==
            Finding(<< "formal", dokument.id, art >>, dokument.id, dokument.gewerk,
                    "formal", prioritaet, titel, werte, << dokument.filename >>,
                    "formal_compliance_agent", konfidenz)
    IN  IF dokument.document_type # "plan" THEN << >>
        ELSE IF legend_data = None
        THEN << Befund("legend_hint", "hinweis", "Legendenprüfung nicht möglich",
                       [ text |-> << "keine Legendendaten" >>, zahlen |-> << >> ], 20) >>
        ELSE IF missing_keywords # << >>
        THEN << Befund("legend_missing", "mittel", "Legende unvollständig",
                       [ text |-> missing_keywords, zahlen |-> << >> ], 70) >>
        ELSE << >>

\* _pruefe_vdi_6026_konformitaet: the findings for one document
PruefeVdi6026Konformitaet(dokument) ==
    LET legend_data == LegendData(dokument)
        mandatory_keywords == MandatoryLegendKeywords[dokument.gewerk]
        legend_terms == CollectLegendTerms(legend_data[1])
        missing_keywords ==
            SelectSeq(mandatory_keywords,
                      LAMBDA keyword :
                          ~ \E i \in 1..Len(legend_terms) : Enthaelt(legend_terms[i], keyword))
        Befund(art, prioritaet, titel, werte, konfidenz) ==
            Finding(<< "formal", dokument.id, art >>, dokument.id, dokument.gewerk,
                    "formal", prioritaet, titel, werte, << dokument.filename >>,
                    "formal_compliance_agent", konfidenz)
    IN  IF dokument.document_type # "plan" THEN << >>
        ELSE IF legend_data = None
        THEN << Befund("legend_hint", "hinweis", "Legendenprüfung nicht möglich",
                       [ text |-> << "keine Legendendaten" >>, zahlen |-> << >> ], 20) >>
        ELSE IF legend_terms = << >>
        THEN << Befund("legend_hint", "hinweis", "Legendenprüfung nicht möglich",
                       [ text |-> << "keine auswertbaren Symbole" >>, zahlen |-> << >> ], 20) >>
        ELSE IF missing_keywords # << >>
        THEN << Befund("legend_missing", "mittel", "Legende unvollständig",
                       [ text |-> missing_keywords, zahlen |-> << >> ], 70) >>
        ELSE << >>

\* the metadata after the check: an extracted legend is kept
NachVdi6026(dokument) ==
    IF dokument.document_type = "plan" /\ LegendData(dokument) # None
    THEN [ dokument EXCEPT !.metadaten.legende = LegendData(dokument) ]
    ELSE dokument

\* _starte_formale_pruefung
StarteFormalePruefung(docs) ==
    Flatten([ d \in 1..Len(docs) |-> PruefeVdi6026Konformitaet(docs[d]) ])

\* _extrahiere_metadaten: the legend of the file replaces the given one
ExtrahiereMetadaten(dokument) ==
    IF dokument.datei_legende # None
    THEN [ dokument EXCEPT !.metadaten.legende = dokument.datei_legende ]
    ELSE dokument

---------------------------------------------------------------------------
(* per-trade check *)

\* variant without the try block: the exception of the evaluator leaves run
CheckEngineRunOhneTry(verhalten) ==
    IF verhalten.raises THEN [ exc |-> "Exception", wert |-> << >> ]
    ELSE [ exc |-> "none", wert |-> verhalten.findings ]

\* CheckEngine.run: an exception of the evaluator is logged and gives []
CheckEngineRun(verhalten) ==
    IF verhalten.raises THEN [ exc |-> "none", wert |-> << >> ]
    ELSE [ exc |-> "none", wert |-> verhalten.findings ]

\* _convert_rule_finding
ConvertRuleFinding(finding, gewerk, docs) ==
    LET dokument_id == OrStr(<< finding.dokument_id, Some("") >>)[1]
        treffer == SelectSeq(docs, LAMBDA d : d.id = dokument_id)
        plan_ref == IF dokument_id # "" /\ ~ TruthyStr(finding.plan_referenz)
                       /\ treffer # << >>
                    THEN Some(treffer[Len(treffer)].filename)
                    ELSE finding.plan_referenz
    IN  Finding(finding.id, dokument_id, gewerk, finding.kategorie, finding.prioritaet,
                finding.titel, [ text |-> << >>, zahlen |-> << >> ], plan_ref,
                "rule_engine", finding.konfidenz_score)

\* _pruefe_gewerk: the converted findings of one trade, or the exception that
\* left the pipeline
PruefeGewerk(gewerk, docs, verhalten) ==
    LET rule_results == CheckEngineRun(verhalten)
        dokumente_des_gewerks == SelectSeq(docs, LAMBDA d : d.gewerk = gewerk)
    IN  [ exc |-> rule_results.exc,
          wert |-> [ i \in 1..Len(rule_results.wert) |->
                       ConvertRuleFinding(rule_results.wert[i], gewerk,
                                          dokumente_des_gewerks) ] ]

\* keys of gewerke_dokumente in insertion order: the trades in the order of
\* their first document
RECURSIVE GewerkeReihenfolge(_, _)
GewerkeReihenfolge(docs, acc) ==
    IF docs = << >> THEN acc
    ELSE IF \E i \in 1..Len(acc) : acc[i] = Head(docs).gewerk
         THEN GewerkeReihenfolge(Tail(docs), acc)
         ELSE GewerkeReihenfolge(Tail(docs), Append(acc, Head(docs).gewerk))

\* _starte_koordinationspruefung
StarteKoordinationspruefung(docs) ==
    PruefeKollisionen(docs) \o PruefeSchnittstellen(docs) \o PruefeSudPlanung(docs)

---------------------------------------------------------------------------
(* TGACoordinator: a run of starte_pruefung per order object *)

Objekte == { "o1", "o2" }

AuftragIds == { "a1", "a2" }

\* the trades with a task, in the order the tasks are created
Aufgaben(o) == GewerkeReihenfolge(dokumente[o], << >>)

Offen(o) == { g \in GewerkeType :
                /\ \E i \in 1..Len(Aufgaben(o)) : Aufgaben(o)[i] = g
                /\ gewerk_ergebnisse[o][g] = None }

\* lines 139-141: the order is registered and marked running
StartePruefung(o) ==
    /\ pc[o] = "erstellt"
    /\ aktive_auftraege' = [ aktive_auftraege EXCEPT ![auftrag_id[o]] = Some(o) ]
    /\ status' = [ status EXCEPT ![o] = "laufend" ]
    /\ pc' = [ pc EXCEPT ![o] = "klassifiziere" ]
    /\ UNCHANGED << dokumente, auftrag_id, ergebnisse, formale_befunde, fach_befunde,
                    koordinations_befunde, gewerk_ergebnisse, exception,
                    evaluator_verhalten, abschluss >>
    /\ UNCHANGED funcVars

\* _klassifiziere_dokumente
KlassifiziereDokumente(o) ==
    /\ pc[o] = "klassifiziere"
    /\ dokumente' = [ dokumente EXCEPT ![o] =
                        [ i \in 1..Len(dokumente[o]) |-> ExtrahiereMetadaten(dokumente[o][i]) ] ]
    /\ pc' = [ pc EXCEPT ![o] = "formal" ]
    /\ UNCHANGED << auftrag_id, status, aktive_auftraege, ergebnisse, formale_befunde,
                    fach_befunde, koordinations_befunde, gewerk_ergebnisse, exception,
                    evaluator_verhalten, abschluss >>
    /\ UNCHANGED funcVars

\* _starte_formale_pruefung
FormalePruefung(o) ==
    /\ pc[o] = "formal"
    /\ formale_befunde' = [ formale_befunde EXCEPT ![o] = StarteFormalePruefung(dokumente[o]) ]
    /\ dokumente' = [ dokumente EXCEPT ![o] =
                        [ i \in 1..Len(dokumente[o]) |-> NachVdi6026(dokumente[o][i]) ] ]
    /\ pc' = [ pc EXCEPT ![o] = "fach" ]
    /\ UNCHANGED << auftrag_id, status, aktive_auftraege, ergebnisse, fach_befunde,
                    koordinations_befunde, gewerk_ergebnisse, exception,
                    evaluator_verhalten, abschluss >>
    /\ UNCHANGED funcVars

\* _starte_fachpruefung up to asyncio.gather: one task per trade
StarteFachpruefung(o) ==
    /\ pc[o] = "fach"
    /\ pc' = [ pc EXCEPT ![o] = "gather" ]
    /\ UNCHANGED << dokumente, auftrag_id, status, aktive_auftraege, ergebnisse,
                    formale_befunde, fach_befunde, koordinations_befunde,
                    gewerk_ergebnisse, exception, evaluator_verhalten, abschluss >>
    /\ UNCHANGED funcVars

\* variant in which the task of a trade takes the penetration entries out of
\* the metadata of the trade's documents
PruefeGewerkTaskVerbraucht(o, g) ==
    /\ pc[o] = "gather"
    /\ g \in Offen(o)
    /\ LET r == PruefeGewerk(g, dokumente[o], evaluator_verhalten[g])
       IN  IF r.exc = "none"
           THEN /\ gewerk_ergebnisse' = [ gewerk_ergebnisse EXCEPT ![o][g] = Some(r.wert) ]
                /\ UNCHANGED << status, pc, exception >>
           ELSE /\ status' = [ status EXCEPT ![o] = "fehler" ]
                /\ exception' = [ exception EXCEPT ![o] = r.exc ]
                /\ pc' = [ pc EXCEPT ![o] = "fertig" ]
                /\ UNCHANGED gewerk_ergebnisse
    /\ abschluss' = [ abschluss EXCEPT ![o] = Append(@, g) ]
    /\ dokumente' = [ dokumente EXCEPT ![o] =
                        [ i \in 1..Len(dokumente[o]) |->
                            IF dokumente[o][i].gewerk = g
                            THEN [ dokumente[o][i] EXCEPT !.metadaten.sud = None ]
                            ELSE dokumente[o][i] ] ]
    /\ UNCHANGED << auftrag_id, aktive_auftraege, ergebnisse, formale_befunde,
                    fach_befunde, koordinations_befunde, evaluator_verhalten >>
    /\ UNCHANGED funcVars

\* one _pruefe_gewerk task runs to its end; an exception leaving it reaches
\* the except clause of starte_pruefung through gather
PruefeGewerkTask(o, g) ==
    /\ pc[o] = "gather"
    /\ g \in Offen(o)
    /\ LET r == PruefeGewerk(g, dokumente[o], evaluator_verhalten[g])
       IN  IF r.exc = "none"
           THEN /\ gewerk_ergebnisse' = [ gewerk_ergebnisse EXCEPT ![o][g] = Some(r.wert) ]
                /\ UNCHANGED << status, pc, exception >>
           ELSE /\ status' = [ status EXCEPT ![o] = "fehler" ]
                /\ exception' = [ exception EXCEPT ![o] = r.exc ]
                /\ pc' = [ pc EXCEPT ![o] = "fertig" ]
                /\ UNCHANGED gewerk_ergebnisse
    /\ abschluss' = [ abschluss EXCEPT ![o] = Append(@, g) ]
    /\ UNCHANGED << dokumente, auftrag_id, aktive_auftraege, ergebnisse, formale_befunde,
                    fach_befunde, koordinations_befunde, evaluator_verhalten >>
    /\ UNCHANGED funcVars

\* variant that concatenates the results in the order the tasks completed
SammleFachbefundeNachAbschluss(o) ==
    /\ pc[o] = "gather"
    /\ Offen(o) = {}
    /\ fach_befunde' = [ fach_befunde EXCEPT ![o] =
                           Flatten([ i \in 1..Len(abschluss[o]) |->
                                       gewerk_ergebnisse[o][abschluss[o][i]][1] ]) ]
    /\ pc' = [ pc EXCEPT ![o] = "koordination" ]
    /\ UNCHANGED << dokumente, auftrag_id, status, aktive_auftraege, ergebnisse,
                    formale_befunde, koordinations_befunde, gewerk_ergebnisse, exception,
                    evaluator_verhalten, abschluss >>
    /\ UNCHANGED funcVars

\* gather returns the results in task order; they are concatenated
SammleFachbefunde(o) ==
    /\ pc[o] = "gather"
    /\ Offen(o) = {}
    /\ fach_befunde' = [ fach_befunde EXCEPT ![o] =
                           Flatten([ i \in 1..Len(Aufgaben(o)) |->
                                       gewerk_ergebnisse[o][Aufgaben(o)[i]][1] ]) ]
    /\ pc' = [ pc EXCEPT ![o] = "koordination" ]
    /\ UNCHANGED << dokumente, auftrag_id, status, aktive_auftraege, ergebnisse,
                    formale_befunde, koordinations_befunde, gewerk_ergebnisse, exception,
                    evaluator_verhalten, abschluss >>
    /\ UNCHANGED funcVars

\* variant that stores the coordination findings as soon as they exist
KoordinationspruefungMitAblage(o) ==
    /\ pc[o] = "koordination"
    /\ koordinations_befunde' = [ koordinations_befunde EXCEPT ![o] =
                                    StarteKoordinationspruefung(dokumente[o]) ]
    /\ ergebnisse' = [ ergebnisse EXCEPT ![auftrag_id[o]] =
                          Some(StarteKoordinationspruefung(dokumente[o])) ]
    /\ pc' = [ pc EXCEPT ![o] = "bewerte" ]
    /\ UNCHANGED << dokumente, auftrag_id, status, aktive_auftraege,
                    formale_befunde, fach_befunde, gewerk_ergebnisse, exception,
                    evaluator_verhalten, abschluss >>
    /\ UNCHANGED funcVars

\* _starte_koordinationspruefung
Koordinationspruefung(o) ==
    /\ pc[o] = "koordination"
    /\ koordinations_befunde' = [ koordinations_befunde EXCEPT ![o] =
                                    StarteKoordinationspruefung(dokumente[o]) ]
    /\ pc' = [ pc EXCEPT ![o] = "bewerte" ]
    /\ UNCHANGED << dokumente, auftrag_id, status, aktive_auftraege, ergebnisse,
                    formale_befunde, fach_befunde, gewerk_ergebnisse, exception,
                    evaluator_verhalten, abschluss >>
    /\ UNCHANGED funcVars

\* lines 157-170: merge, sort, store; an exception of the sort ends the run
\* with status "fehler" and is raised again
BewerteUndSpeichere(o) ==
    /\ pc[o] = "bewerte"
    /\ LET alle_befunde == formale_befunde[o] \o fach_befunde[o] \o koordinations_befunde[o]
           r == BewerteBefunde(alle_befunde)
       IN  IF r.exc = "none"
           THEN /\ ergebnisse' = [ ergebnisse EXCEPT ![auftrag_id[o]] = Some(r.wert) ]
                /\ status' = [ status EXCEPT ![o] = "abgeschlossen" ]
                /\ UNCHANGED exception
           ELSE /\ status' = [ status EXCEPT ![o] = "fehler" ]
                /\ exception' = [ exception EXCEPT ![o] = r.exc ]
                /\ UNCHANGED ergebnisse
    /\ pc' = [ pc EXCEPT ![o] = "fertig" ]
    /\ UNCHANGED << dokumente, auftrag_id, aktive_auftraege, formale_befunde, fach_befunde,
                    koordinations_befunde, gewerk_ergebnisse, evaluator_verhalten, abschluss >>
    /\ UNCHANGED funcVars

\* the run is cancelled while it waits in gather: CancelledError is no
\* Exception, the except clause does not run
Abbruch(o) ==
    /\ pc[o] = "gather"
    /\ Aufgaben(o) # << >>
    /\ pc' = [ pc EXCEPT ![o] = "abgebrochen" ]
    /\ UNCHANGED << dokumente, auftrag_id, status, aktive_auftraege, ergebnisse,
                    formale_befunde, fach_befunde, koordinations_befunde,
                    gewerk_ergebnisse, exception, evaluator_verhalten, abschluss >>
    /\ UNCHANGED funcVars

\* get_status
GetStatus(auftrag) ==
    IF aktive_auftraege[auftrag] = None THEN [ error |-> "Auftrag nicht gefunden" ]
    ELSE LET o == aktive_auftraege[auftrag][1]
             liste == IF ergebnisse[auftrag] = None THEN << >> ELSE ergebnisse[auftrag][1]
             Anzahl(p) == Len(SelectSeq(liste, LAMBDA b : b.prioritaet = p))
         IN  [ auftrag_id |-> auftrag,
               status |-> status[o],
               anzahl_dokumente |-> Len(dokumente[o]),
               anzahl_befunde |-> Len(liste),
               befunde_nach_prioritaet |->
                   [ hoch |-> Anzahl("hoch"), mittel |-> Anzahl("mittel"),
                     niedrig |-> Anzahl("niedrig") ] ]

\* get_ergebnisse
GetErgebnisse(auftrag) ==
    IF ergebnisse[auftrag] = None THEN << >>
    ELSE LET befunde == ergebnisse[auftrag][1]
         IN  [ i \in 1..Len(befunde) |->
                 [ id |-> befunde[i].id,
                   gewerk |-> befunde[i].gewerk,
                   kategorie |-> befunde[i].kategorie,
                   prioritaet |-> befunde[i].prioritaet,
                   titel |-> befunde[i].titel,
                   beschreibung |-> befunde[i].beschreibung,
                   plan_referenz |-> befunde[i].plan_referenz,
                   konfidenz_score |-> befunde[i].konfidenz_score ] ]

---------------------------------------------------------------------------
(* inputs: documents and their metadata *)

\* metadata without any of the keys the checks read
MetaLeer ==
    [ legende |-> None, geschoss |-> None, plan_ref |-> None, geometrie |-> None,
      schnittstellen |-> None, sud |-> None ]

\* Document
Dokument(id, filename, gewerk, document_type, metadaten, datei_legende) ==
    [ id |-> id, filename |-> filename, plan_nummer |-> None,
      document_type |-> document_type, gewerk |-> gewerk, metadaten |-> metadaten,
      datei_legende |-> datei_legende ]

\* an element of metadaten["geometrie"]["elemente"]
Element(id, bbox, level) ==
    [ id |-> id, name |-> None, bbox |-> bbox, bounding_box |-> None,
      level |-> level, plan_ref |-> None ]

Geometrie(elemente) == Some([ elemente |-> elemente, level |-> None, plan_ref |-> None ])

\* an entry of metadaten["schnittstellen"]["versorgungen"]
VersorgungEintrag(referenz, kapazitaet_kw, kapazitaet) ==
    [ referenz |-> referenz, kreis |-> None, id |-> None, name |-> None,
      kapazitaet_kw |-> kapazitaet_kw, leistung_kw |-> None,
      anschlussleistung_kw |-> None, kapazitaet |-> kapazitaet, plan_ref |-> None ]

\* an entry of metadaten["schnittstellen"]["elektro"]
ElektroEintrag(versorgung, leistung_kw, plan_ref) ==
    [ versorgung |-> versorgung, kreis |-> None, referenz |-> None,
      leistung_kw |-> leistung_kw, anschlussleistung_kw |-> None, leistung |-> None,
      plan_ref |-> plan_ref ]

Schnittstellen(versorgungen, elektro) ==
    Some([ versorgungen |-> versorgungen, elektro |-> elektro ])

\* the mapping under "dimensionen"
Dimensionen(breite, hoehe, durchmesser) ==
    [ breite |-> breite, width |-> None, hoehe |-> hoehe, height |-> None,
      durchmesser |-> durchmesser, diameter |-> None ]

\* the mapping under "lage"
Lage(x, y) == [ x |-> x, pos_x |-> None, y |-> y, pos_y |-> None ]

\* an entry of metadaten["sud"]["anforderungen"] or ["bestaetigt"]
SudEintrag(id, referenz, geschoss, dimensionen, lage, plan_ref) ==
    [ id |-> id, referenz |-> referenz, zuordnung |-> None, plan_ref |-> plan_ref,
      geschoss |-> geschoss, dimensionen |-> dimensionen, lage |-> lage,
      breite |-> None, width |-> None, hoehe |-> None, height |-> None,
      durchmesser |-> None, diameter |-> None,
      x |-> None, pos_x |-> None, y |-> None, pos_y |-> None, status |-> None ]

Sud(anforderungen, bestaetigt) ==
    Some([ anforderungen |-> anforderungen, bestaetigt |-> bestaetigt, plan_ref |-> None ])

\* a finding of a rule evaluator (checks.common.Finding)
RuleFinding(id, prioritaet, konfidenz_score, dokument_id) ==
    [ id |-> id, kategorie |-> "technisch", prioritaet |-> prioritaet, titel |-> id[2],
      konfidenz_score |-> konfidenz_score, dokument_id |-> dokument_id,
      plan_referenz |-> None ]

---------------------------------------------------------------------------
(* specification of the project run *)

LegendeVollstaendig ==
    Some([ symbole |-> << << "KW", "Kaltwasserleitung" >>, << "WW", "Warmwasser " >>,
                          << "AW", "Abwasser" >> >> ])

LegendeUnvollstaendig == Some([ symbole |-> << << "KW", "Kaltwasserleitung" >> >> ])

LegendeOhneBegriffe == Some([ symbole |-> << << "", " " >> >> ])

LegendeLueftung == Some([ symbole |-> << << "ZU", "Zuluft" >> >> ])

Box(x_min, x_max, y_min, y_max) ==
    Some([ x_min |-> Some(Zahl(x_min)), x_max |-> Some(Zahl(x_max)),
           y_min |-> Some(Zahl(y_min)), y_max |-> Some(Zahl(y_max)) ])

\* the first document of an order
ErsteDokumente ==
    { Dokument("d1", "plan1.pdf", "kg410_sanitaer", "plan", MetaLeer, None),
      Dokument("d1", "plan1.pdf", "kg410_sanitaer", "plan",
               [ MetaLeer EXCEPT !.legende = LegendeUnvollstaendig ], None),
      Dokument("d1", "plan1.pdf", "kg410_sanitaer", "plan",
               [ MetaLeer EXCEPT !.legende = LegendeVollstaendig ], None),
      Dokument("d1", "heizlast.pdf", "kg420_heizung", "berechnung",
               [ MetaLeer EXCEPT
                   !.schnittstellen = Schnittstellen(<< >>,
                       << ElektroEintrag(Some("HK1"), Some(Zahl(20000000)), Some("H-1")) >>),
                   !.geometrie = Geometrie(<< Element(Some("h1"), Box(0, 2, 0, 2), None) >>) ],
               None),
      Dokument("d1", "plan1.pdf", "kg420_heizung", "plan",
               [ MetaLeer EXCEPT
                   !.legende = LegendeOhneBegriffe,
                   !.sud = Sud(<< SudEintrag(Some("D1"), None, None, None, None, None) >>,
                               << >>) ],
               None),
      Dokument("d1", "plan1.pdf", "kg430_lueftung", "plan",
               [ MetaLeer EXCEPT
                   !.geometrie = Geometrie(<< Element(Some("l1"), Box(0, 2, 0, 2), None) >>) ],
               LegendeLueftung) }

\* the second document of an order
ZweiteDokumente ==
    { Dokument("d2", "elektro.pdf", "kg440_elektro", "schema",
               [ MetaLeer EXCEPT
                   !.schnittstellen = Schnittstellen(
                       << VersorgungEintrag(Some("hk1"), Some(Zahl(15000000)), None) >>, << >>),
                   !.geometrie = Geometrie(<< Element(Some("e1"), Box(1, 3, 1, 3), None) >>) ],
               None),
      Dokument("d2", "plan2.pdf", "kg440_elektro", "plan", MetaLeer, None),
      Dokument("d2", "heizung2.pdf", "kg420_heizung", "berechnung", MetaLeer, None),
      Dokument("d2", "sud.pdf", "kg410_sanitaer", "berechnung",
               [ MetaLeer EXCEPT
                   !.sud = Sud(<< >>,
                               << SudEintrag(None, Some("d1"), None, None, None, None) >>) ],
               None) }

\* the documents of the second order
ZweiterAuftrag ==
    << Dokument("d3", "plan3.pdf", "kg410_sanitaer", "plan",
                [ MetaLeer EXCEPT !.legende = LegendeVollstaendig ], None) >>

\* what the evaluator of a trade returns when it does not raise
EvaluatorBefunde ==
    [ g \in GewerkeType |->
        CASE g = "kg410_sanitaer" ->
               << RuleFinding(<< "kg410", "temp_missing" >>, "niedrig", 50, Some("d1")),
                  RuleFinding(<< "kg410", "temp" >>, "hoch", 90, Some("d1")) >>
          [] g = "kg420_heizung" ->
               << RuleFinding(<< "kg420", "0001" >>, "hoch", 90, None) >>
          [] g = "kg430_lueftung" ->
               << RuleFinding(<< "kg430", "luftwechsel" >>, "mittel", 70, Some("d1")),
                  RuleFinding(<< "kg430", "wrg" >>, "mittel", 80, Some("d1")) >>
          [] g = "kg440_elektro" ->
               << RuleFinding(<< "kg440", "spannungsfall" >>, "mittel", 80, Some("d2")) >>
          [] OTHER -> << >> ]

\* the sets of trades whose evaluator raises in the model
Ausfaelle ==
    { {}, { "kg410_sanitaer" }, { "kg420_heizung", "kg440_elektro" },
      { "kg410_sanitaer", "kg420_heizung", "kg440_elektro" } }

InitFunktionAus ==
    /\ eingabe = << >>
    /\ ausgabe = << >>
    /\ lokale = << >>
    /\ schritt = "aus"

Init ==
    /\ \E d1 \in ErsteDokumente, d2 \in ZweiteDokumente :
          dokumente = [ o \in Objekte |-> IF o = "o1" THEN << d1, d2 >> ELSE ZweiterAuftrag ]
    /\ auftrag_id \in { f \in [ Objekte -> AuftragIds ] : f["o1"] = "a1" }
    /\ status = [ o \in Objekte |-> "erstellt" ]
    /\ aktive_auftraege = [ a \in AuftragIds |-> None ]
    /\ ergebnisse = [ a \in AuftragIds |-> None ]
    /\ pc = [ o \in Objekte |-> "erstellt" ]
    /\ formale_befunde = [ o \in Objekte |-> << >> ]
    /\ fach_befunde = [ o \in Objekte |-> << >> ]
    /\ koordinations_befunde = [ o \in Objekte |-> << >> ]
    /\ gewerk_ergebnisse = [ o \in Objekte |-> [ g \in GewerkeType |-> None ] ]
    /\ exception = [ o \in Objekte |-> "none" ]
    /\ abschluss = [ o \in Objekte |-> << >> ]
    /\ \E raising \in Ausfaelle :
          evaluator_verhalten =
              [ g \in GewerkeType |-> [ raises |-> g \in raising,
                                        findings |-> EvaluatorBefunde[g] ] ]
    /\ InitFunktionAus

Next ==
    \E o \in Objekte :
        \/ StartePruefung(o)
        \/ KlassifiziereDokumente(o)
        \/ FormalePruefung(o)
        \/ StarteFachpruefung(o)
        \/ \E g \in GewerkeType : PruefeGewerkTask(o, g)
        \/ SammleFachbefunde(o)
        \/ Koordinationspruefung(o)
        \/ BewerteUndSpeichere(o)
        \/ Abbruch(o)

Spec == Init /\ [][Next]_vars

\* number of positions of s that hold x
Anzahl(s, x) == Cardinality({ i \in 1..Len(s) : s[i] = x })

\* s holds the elements of t, each as often as t
IstPermutation(s, t) ==
    /\ Len(s) = Len(t)
    /\ \A i \in 1..Len(t) : Anzahl(s, t[i]) = Anzahl(t, t[i])

\* rank of a priority in the merge contract: hoch > mittel > niedrig
Rang(prioritaet) ==
    CASE prioritaet = "hoch" -> 3 [] prioritaet = "mittel" -> 2 [] prioritaet = "niedrig" -> 1

\* C1: a project run never fails because of the findings its own checks
\* produce: whatever the formal, per-trade and coordination checks emit
\* (also for a plan without legend data), merge and sort succeed, the run ends
\* with status 'abgeschlossen' and the findings are stored; never 'fehler'
C1_LaufEndetAbgeschlossen ==
    \A o \in Objekte :
        /\ status[o] # "fehler"
        /\ pc[o] = "fertig" => /\ status[o] = "abgeschlossen"
                               /\ exception[o] = "none"
                               /\ ergebnisse[auftrag_id[o]] # None

\* the ids of a list of findings
Ids(befunde) == [ i \in 1..Len(befunde) |-> befunde[i].id ]

\* C3: CheckEngine.run never propagates an evaluator failure: when the
\* evaluator of a trade raises, the trade contributes the empty list, the
\* findings of the other trades are those their evaluators returned, no
\* exception leaves the trade stage and the run goes on to the later stages
C3_EvaluatorFehlerBleibtImGewerk ==
    \A o \in Objekte :
        /\ \A g \in GewerkeType :
              gewerk_ergebnisse[o][g] # None =>
                  IF evaluator_verhalten[g].raises
                  THEN gewerk_ergebnisse[o][g][1] = << >>
                  ELSE Ids(gewerk_ergebnisse[o][g][1]) = Ids(evaluator_verhalten[g].findings)
        /\ pc[o] \in { "gather", "koordination", "bewerte" } =>
              status[o] = "laufend" /\ exception[o] = "none"
        /\ exception[o] # "Exception"
        /\ pc[o] \in { "koordination", "bewerte", "fertig" } =>
              /\ \A g \in GewerkeType :
                    (\E i \in 1..Len(dokumente[o]) : dokumente[o][i].gewerk = g)
                        => gewerk_ergebnisse[o][g] # None
              /\ \A g \in GewerkeType :
                    Ids(SelectSeq(fach_befunde[o], LAMBDA f : f.gewerk = g))
                      = IF /\ \E i \in 1..Len(dokumente[o]) : dokumente[o][i].gewerk = g
                           /\ ~ evaluator_verhalten[g].raises
                        THEN Ids(evaluator_verhalten[g].findings)
                        ELSE << >>

\* the sanitary evaluator raised and the electrical one did not: the run of
\* order a1 is completed and its stored findings hold the electrical finding
C3_Witness ==
    /\ evaluator_verhalten["kg410_sanitaer"].raises
    /\ ~ evaluator_verhalten["kg440_elektro"].raises
    /\ auftrag_id["o2"] = "a2"
    /\ pc["o1"] = "fertig"
    /\ status["o1"] = "abgeschlossen"
    /\ gewerk_ergebnisse["o1"]["kg410_sanitaer"] = Some(<< >>)
    /\ gewerk_ergebnisse["o1"]["kg440_elektro"] # None
    /\ ergebnisse["a1"] # None
    /\ \E i \in 1..Len(ergebnisse["a1"][1]) :
          ergebnisse["a1"][1][i].id = << "kg440", "spannungsfall" >>

\* the list is in the order of the merge contract
Absteigend(befunde) ==
    \A i, j \in 1..Len(befunde) :
        i < j =>
          \/ Rang(befunde[i].prioritaet) > Rang(befunde[j].prioritaet)
          \/ /\ befunde[i].prioritaet = befunde[j].prioritaet
             /\ befunde[i].konfidenz_score >= befunde[j].konfidenz_score

\* what a step does to the findings stored under order id a
ErgebnisSchritt(a) ==
    /\ ergebnisse'[a] # ergebnisse[a] =>
          \E o \in Objekte :
              /\ auftrag_id[o] = a
              /\ pc[o] = "bewerte" /\ pc'[o] = "fertig"
              /\ status'[o] = "abgeschlossen"
              /\ ergebnisse'[a] # None
              /\ IstPermutation(ergebnisse'[a][1],
                                formale_befunde[o] \o fach_befunde[o]
                                    \o koordinations_befunde[o])
              /\ Absteigend(ergebnisse'[a][1])
    /\ aktive_auftraege'[a] # None =>
          /\ GetStatus(a)'.anzahl_befunde = Len(GetErgebnisse(a)')
          /\ Ids(GetErgebnisse(a)') = IF ergebnisse'[a] = None THEN << >>
                                        ELSE Ids(ergebnisse'[a][1])

\* C10: the merge of a run is all-or-nothing: the findings get_ergebnisse
\* and get_status expose for an order change only in the one step that stores
\* the complete merged and sorted list of a run of that order; a run that
\* fails or is cancelled stores nothing
C10_ErgebnisseGanzOderGarNicht ==
    [][ /\ \A a \in AuftragIds : ErgebnisSchritt(a)
        /\ \A o \in Objekte :
              ( /\ pc'[o] # pc[o]
                /\ (pc'[o] = "abgebrochen" \/ status'[o] = "fehler") )
              => ergebnisse' = ergebnisse ]_vars

\* order a1 stored a formal, three rule and a coordination finding in one
\* list, and order a2 was cancelled in the trade stage and stored nothing
C10_Witness ==
    /\ auftrag_id["o2"] = "a2"
    /\ pc["o1"] = "fertig"
    /\ status["o1"] = "abgeschlossen"
    /\ ergebnisse["a1"] # None
    /\ Len(ergebnisse["a1"][1]) = 5
    /\ \E i \in 1..5 : ergebnisse["a1"][1][i].agent_quelle = "formal_compliance_agent"
    /\ \E i \in 1..5 : ergebnisse["a1"][1][i].agent_quelle = "coordination_agent"
    /\ pc["o2"] = "abgebrochen"
    /\ ergebnisse["a2"] = None
    /\ GetErgebnisse("a2") = << >>
    /\ GetStatus("a2").anzahl_befunde = 0

\* the trade findings of a run in the order of the tasks: the trades in the
\* order of their first document, each with the findings of its evaluator
FachbefundeNachAufgaben(o) ==
    Flatten([ i \in 1..Len(Aufgaben(o)) |->
                PruefeGewerk(Aufgaben(o)[i], dokumente[o],
                             evaluator_verhalten[Aufgaben(o)[i]]).wert ])

\* C11: the order of the final finding list of a run does not depend on the
\* order in which the concurrent trade tasks complete: whatever the
\* completion order, the trade findings are merged in the order of the tasks
\* and the stored list is the sort of formal, trade and coordination
\* findings in that order, so two executions of the same order that differ
\* only in the interleaving store the same list element by element
C11_ReihenfolgeUnabhaengigVomAbschluss ==
    \A o \in Objekte :
        /\ pc[o] \in { "koordination", "bewerte", "fertig" } =>
              fach_befunde[o] = FachbefundeNachAufgaben(o)
        /\ ( /\ pc[o] = "fertig"
             /\ status[o] = "abgeschlossen"
             /\ \A p \in Objekte \ { o } : auftrag_id[p] # auftrag_id[o] ) =>
              ergebnisse[auftrag_id[o]] =
                  Some(BewerteBefunde(formale_befunde[o] \o FachbefundeNachAufgaben(o)
                                        \o koordinations_befunde[o]).wert)

\* the heating task completed before the sanitary task that was created
\* first; both findings have priority hoch and confidence 0.9, and the stored
\* list has the sanitary finding before the heating finding
C11_Witness ==
    /\ Aufgaben("o1") = << "kg410_sanitaer", "kg420_heizung" >>
    /\ abschluss["o1"] = << "kg420_heizung", "kg410_sanitaer" >>
    /\ auftrag_id["o2"] = "a2"
    /\ pc["o1"] = "fertig"
    /\ status["o1"] = "abgeschlossen"
    /\ \E i, k \in 1..Len(ergebnisse["a1"][1]) :
          /\ i < k
          /\ ergebnisse["a1"][1][i].id = << "kg410", "temp" >>
          /\ ergebnisse["a1"][1][k].id = << "kg420", "0001" >>
          /\ SortKey(ergebnisse["a1"][1][i]) = SortKey(ergebnisse["a1"][1][k])

\* the run variables are not used by the function specifications
---------------------------------------------------------------------------
(* specification of _bewerte_befunde applied to bounded lists *)

InitLaufAus ==
    /\ dokumente = [ o \in Objekte |-> << >> ]
    /\ auftrag_id = [ o \in Objekte |-> "a1" ]
    /\ status = [ o \in Objekte |-> "erstellt" ]
    /\ aktive_auftraege = [ a \in AuftragIds |-> None ]
    /\ ergebnisse = [ a \in AuftragIds |-> None ]
    /\ pc = [ o \in Objekte |-> "aus" ]
    /\ formale_befunde = [ o \in Objekte |-> << >> ]
    /\ fach_befunde = [ o \in Objekte |-> << >> ]
    /\ koordinations_befunde = [ o \in Objekte |-> << >> ]
    /\ gewerk_ergebnisse = [ o \in Objekte |-> [ g \in GewerkeType |-> None ] ]
    /\ exception = [ o \in Objekte |-> "none" ]
    /\ abschluss = [ o \in Objekte |-> << >> ]
    /\ evaluator_verhalten =
           [ g \in GewerkeType |-> [ raises |-> FALSE, findings |-> << >> ] ]

\* longest list of findings that is sorted
MaxLen == 3

Prioritaeten == { "hoch", "mittel", "niedrig", "hinweis" }

Konfidenzen == { 50, 90 }

\* the i-th finding of a list
SortierBefund(i, prioritaet, konfidenz_score) ==
    Finding(<< "befund", ToString(i) >>, "d1", "kg410_sanitaer", "technisch", prioritaet,
            "Befund", [ text |-> << >>, zahlen |-> << >> ], << "plan1.pdf" >>,
            "rule_engine", konfidenz_score)

SortierEingaben ==
    UNION { { [ i \in 1..n |-> SortierBefund(i, wahl[i][1], wahl[i][2]) ] :
                wahl \in [ 1..n -> Prioritaeten \X Konfidenzen ] } : n \in 0..MaxLen }

InitSort ==
    /\ InitLaufAus
    /\ eingabe \in SortierEingaben
    /\ ausgabe = << >>
    /\ lokale = << >>
    /\ schritt = "bereit"

\* await self._bewerte_befunde(eingabe)
Bewerte ==
    /\ schritt = "bereit"
    /\ ausgabe' = BewerteBefunde(eingabe)
    /\ schritt' = "fertig"
    /\ UNCHANGED << eingabe, lokale >>
    /\ UNCHANGED runVars

NextSort == Bewerte

SpecSort == InitSort /\ [][NextSort]_vars

\* C2: for every list of findings with priorities in {hoch, mittel, niedrig},
\* _bewerte_befunde returns a permutation of the list in which the priorities
\* are non-increasing under hoch > mittel > niedrig and, among findings of
\* equal priority, konfidenz_score is non-increasing
C2_SortierungIstPermutationUndAbsteigend ==
    ( /\ schritt = "fertig"
      /\ \A i \in 1..Len(eingabe) : eingabe[i].prioritaet \in { "hoch", "mittel", "niedrig" } )
    => /\ ausgabe.exc = "none"
       /\ IstPermutation(ausgabe.wert, eingabe)
       /\ \A i, j \in 1..Len(ausgabe.wert) :
            i < j =>
              \/ Rang(ausgabe.wert[i].prioritaet) > Rang(ausgabe.wert[j].prioritaet)
              \/ /\ ausgabe.wert[i].prioritaet = ausgabe.wert[j].prioritaet
                 /\ ausgabe.wert[i].konfidenz_score >= ausgabe.wert[j].konfidenz_score

\* a list [niedrig, hoch 0.5, hoch 0.9] has been sorted and changed its order
C2_Witness ==
    /\ schritt = "fertig"
    /\ Len(eingabe) = 3
    /\ eingabe[1].prioritaet = "niedrig"
    /\ eingabe[2].prioritaet = "hoch" /\ eingabe[2].konfidenz_score = 50
    /\ eingabe[3].prioritaet = "hoch" /\ eingabe[3].konfidenz_score = 90
    /\ ausgabe.exc = "none"
    /\ ausgabe.wert = << eingabe[3], eingabe[2], eingabe[1] >>

---------------------------------------------------------------------------
(* specification of _pruefe_kollisionen applied to bounded geometry *)

\* largest coordinate of a box corner
MaxCoord == 2

Coord == 0..MaxCoord

MinMaxX(a, b) == [ x_min |-> Some(Zahl(a)), x_max |-> Some(Zahl(b)) ]

MinMaxY(a, b) == [ y_min |-> Some(Zahl(a)), y_max |-> Some(Zahl(b)) ]

MinMaxZ(a, b) == [ z_min |-> Some(Zahl(a)), z_max |-> Some(Zahl(b)) ]

\* the x extent of the varied element: min/max (also swapped or empty),
\* origin and size (also negative), an unreadable minimum beside origin and
\* size, or nothing
XAngaben ==
    { MinMaxX(a, b) : a, b \in Coord }
    \cup { [ x |-> Some(Zahl(a)), width |-> Some(Zahl(w)) ] : a \in Coord, w \in { 0 - 1, 2 } }
    \cup { [ x_min |-> Some(Unlesbar), xmax |-> Some(Zahl(1)),
             origin_x |-> Some(Text(0)), dx |-> Some(Zahl(2)) ],
           EmptyMapping }

YAngaben == { MinMaxY(0, 1), MinMaxY(2, 3), EmptyMapping }

ZAngaben == { EmptyMapping, MinMaxZ(0, 1), MinMaxZ(2, 3) }

\* element "a" of the first document
ElementeA ==
    { Element(Some("a"), Some(MinMaxX(a, b) @@ MinMaxY(0, 2) @@ z), level) :
        a \in Coord, b \in Coord \ { 0 },
        z \in { EmptyMapping, MinMaxZ(0, 0), MinMaxZ(0, 2) },
        level \in { None, Some("EG") } }

\* element "c" of the first document
ElementC == Element(Some("c"), Some(MinMaxX(0, MaxCoord) @@ MinMaxY(0, 2)), None)

\* element "b" of the second document
ElementeB ==
    { Element(Some("b"), Some(x @@ y @@ z), level) :
        x \in XAngaben, y \in YAngaben, z \in ZAngaben,
        level \in { None, Some("eg"), Some("OG") } }

KollisionsEingaben ==
    { << Dokument("d1", "heizung.pdf", "kg420_heizung", "plan",
                  [ MetaLeer EXCEPT !.geometrie = Geometrie(<< element_a, ElementC >>) ], None),
         Dokument("d2", "elektro.pdf", gewerk_b, "plan",
                  [ MetaLeer EXCEPT !.geometrie = Geometrie(<< element_b >>) ], None) >> :
        element_a \in { e \in ElementeA : e.bbox[1].x_min[1].wert < e.bbox[1].x_max[1].wert },
        element_b \in ElementeB,
        gewerk_b \in { "kg420_heizung", "kg440_elektro" } }

InitKollision ==
    /\ InitLaufAus
    /\ eingabe \in KollisionsEingaben
    /\ ausgabe = << >>
    /\ lokale = << >>
    /\ schritt = "bereit"

\* await self._pruefe_kollisionen(auftrag) for the documents in eingabe
Kollisionen ==
    /\ schritt = "bereit"
    /\ ausgabe' = PruefeKollisionen(eingabe)
    /\ lokale' = [ geometrie_eintraege |-> GeometrieEintraege(eingabe) ]
    /\ schritt' = "fertig"
    /\ UNCHANGED eingabe
    /\ UNCHANGED runVars

NextKollision == Kollisionen

SpecKollision == InitKollision /\ [][NextKollision]_vars

\* length of the interval two extents share, 0 when they are disjoint
AchsenUeberlappung(min_a, max_a, min_b, max_b) ==
    Max(0, Min(max_a, max_b) - Max(min_a, min_b))

\* the condition of the collision rule for two entries
KollisionErwartet(a, b) ==
    /\ a.dokument.gewerk # b.dokument.gewerk
    /\ ~ ( /\ a.level # None
           /\ b.level # None
           /\ Lower(a.level[1]) # Lower(b.level[1]) )
    /\ AchsenUeberlappung(a.bbox.x_min, a.bbox.x_max, b.bbox.x_min, b.bbox.x_max) > 0
    /\ AchsenUeberlappung(a.bbox.y_min, a.bbox.y_max, b.bbox.y_min, b.bbox.y_max) > 0
    /\ \/ AchsenUeberlappung(a.bbox.z_min, a.bbox.z_max, b.bbox.z_min, b.bbox.z_max) > 0
       \/ /\ a.bbox.z_min = 0 /\ a.bbox.z_max = 0
          /\ b.bbox.z_min = 0 /\ b.bbox.z_max = 0

\* the findings of a list that are about the pair (a, b)
BefundeZumPaar(befunde, a, b) ==
    SelectSeq(befunde,
              LAMBDA f : f.id = << "kollision", a.dokument.id, a.element.id[1],
                                   b.dokument.id, b.element.id[1] >>)

\* C4: for every two geometry elements, _pruefe_kollisionen emits exactly one
\* collision finding (priority hoch, confidence 0.85, naming both element ids)
\* if and only if the trades differ, the levels are not both declared and
\* different (case-insensitively), the x and y overlaps are strictly positive
\* and the z overlap is strictly positive or both boxes have z_min = z_max = 0;
\* in every other case no finding is emitted for the pair
C4_KollisionGenauDann ==
    schritt = "fertig" =>
      LET eintraege == lokale.geometrie_eintraege
          paare == { p \in (1..Len(eintraege)) \X (1..Len(eintraege)) : p[1] < p[2] }
      IN  /\ \A p \in paare :
                LET a == eintraege[p[1]]
                    b == eintraege[p[2]]
                    treffer == BefundeZumPaar(ausgabe, a, b)
                IN  IF KollisionErwartet(a, b)
                    THEN /\ Len(treffer) = 1
                         /\ treffer[1].prioritaet = "hoch"
                         /\ treffer[1].konfidenz_score = 85
                         /\ \E i, j \in 1..Len(treffer[1].beschreibung.text) :
                               /\ treffer[1].beschreibung.text[i] = a.element.id[1]
                               /\ treffer[1].beschreibung.text[j] = b.element.id[1]
                    ELSE treffer = << >>
          /\ Len(ausgabe) = Cardinality({ p \in paare :
                                            KollisionErwartet(eintraege[p[1]], eintraege[p[2]]) })

\* element b, given by origin and negative size on levels "EG" and "eg",
\* collides in 3-D with element a of the other trade and with no other
C4_Witness ==
    /\ schritt = "fertig"
    /\ Len(lokale.geometrie_eintraege) = 3
    /\ lokale.geometrie_eintraege[1].level = Some("EG")
    /\ lokale.geometrie_eintraege[3].level = Some("eg")
    /\ "width" \in DOMAIN lokale.geometrie_eintraege[3].element.bbox[1]
    /\ lokale.geometrie_eintraege[3].element.bbox[1].width = Some(Zahl(0 - 1))
    /\ lokale.geometrie_eintraege[1].bbox.z_max = 2
    /\ lokale.geometrie_eintraege[3].bbox.z_max = 1
    /\ Len(ausgabe) = 1
    /\ Len(ausgabe[1].beschreibung.zahlen) = 2

---------------------------------------------------------------------------
(* specification of _pruefe_schnittstellen applied to bounded interface data *)

\* largest distance of a capacity below the demand of 20 kW, in 1e-6 kW
MaxDefizit == 2

\* 20 kW, 18 kW, 15 kW and 22 kW in the unit of the model
Kw20 == 20 * 1000000

Kw18 == 18 * 1000000

Kw15 == 15 * 1000000

Kw22 == 22 * 1000000

Kapazitaetsangaben ==
    { None, Some(Zahl(0)), Some(Zahl(Kw15)), Some(Zahl(Kw22)), Some(Text(Kw15)),
      Some(Unlesbar) }
    \cup { Some(Zahl(Kw20 - k)) : k \in 0..MaxDefizit }

Leistungsangaben ==
    { None, Some(Zahl(0)), Some(Zahl(0 - Kw15)), Some(Zahl(Kw18)), Some(Zahl(Kw20)),
      Some(Text(Kw20)) }

\* the supplies of the electrical document
Versorgungslisten ==
    { << VersorgungEintrag(referenz, kapazitaet_kw, kapazitaet) >> \o weitere :
        referenz \in { Some("HK1"), Some("WP") },
        kapazitaet_kw \in Kapazitaetsangaben,
        kapazitaet \in { None, Some(Zahl(Kw22)) },
        weitere \in { << >>,
                      << VersorgungEintrag(Some("hk1"), Some(Zahl(Kw22)), None) >>,
                      << VersorgungEintrag(Some("WP"), None, None) >> } }

\* the requirements of the heating document
Anschlusslisten ==
    { << ElektroEintrag(versorgung, leistung_kw, Some("H-1")) >> \o weitere :
        versorgung \in { None, Some("hk1"), Some(" HK1"), Some("WP") },
        leistung_kw \in Leistungsangaben,
        weitere \in { << >>,
                      << ElektroEintrag(Some("HK1"), Some(Zahl(Kw18)), Some("H-2")) >> } }

SchnittstellenEingaben ==
    { << Dokument("d1", "elektro.pdf", "kg440_elektro", "schema",
                  [ MetaLeer EXCEPT !.schnittstellen = Schnittstellen(versorgungen, << >>) ],
                  None),
         Dokument("d2", "heizung.pdf", "kg420_heizung", "berechnung",
                  [ MetaLeer EXCEPT !.schnittstellen = Schnittstellen(<< >>, elektro) ],
                  None) >> :
        versorgungen \in Versorgungslisten, elektro \in Anschlusslisten }

InitSchnittstellen ==
    /\ InitLaufAus
    /\ eingabe \in SchnittstellenEingaben
    /\ ausgabe = << >>
    /\ lokale = << >>
    /\ schritt = "bereit"

\* await self._pruefe_schnittstellen(auftrag) for the documents in eingabe
SchnittstellenPruefung ==
    /\ schritt = "bereit"
    /\ ausgabe' = PruefeSchnittstellen(eingabe)
    /\ lokale' = [ elektro_schnittstellen |-> ElektroSchnittstellen(eingabe),
                   heizung_schnittstellen |-> HeizungSchnittstellen(eingabe) ]
    /\ schritt' = "fertig"
    /\ UNCHANGED eingabe
    /\ UNCHANGED runVars

NextSchnittstellen == SchnittstellenPruefung

SpecSchnittstellen == InitSchnittstellen /\ [][NextSchnittstellen]_vars

\* the findings of a list whose first plan reference is plan_ref
BefundeZuPlan(befunde, plan_ref) ==
    SelectSeq(befunde, LAMBDA f : f.plan_referenz # << >> /\ f.plan_referenz[1] = plan_ref)

\* a value that is given and readable as a number
Angegeben(raw) == raw # None /\ raw[1].art # "unlesbar"

\* the capacity keys of a supply entry that carry a value
KapazitaetsSchluessel(eintrag) ==
    { k \in { "kapazitaet_kw", "leistung_kw", "anschlussleistung_kw", "kapazitaet" } :
        eintrag[k] # None }

\* the supply declares one capacity, and it is a number
ErklaertKapazitaet(eintrag) ==
    /\ Cardinality(KapazitaetsSchluessel(eintrag)) = 1
    /\ \A k \in KapazitaetsSchluessel(eintrag) : Angegeben(eintrag[k])

\* C5: for every heating requirement with a positive demand whose reference
\* key equals, case-insensitively, that of an electrical supply that declares
\* a capacity, _pruefe_schnittstellen emits exactly one high-priority
\* 'unterdimensioniert' finding quoting capacity, demand and deficit when
\* capacity + 1e-6 < demand, and no finding for the requirement otherwise
C5_UnterdimensioniertGenauDann ==
    schritt = "fertig" =>
      LET versorgungen == eingabe[1].metadaten.schnittstellen[1].versorgungen
          elektro == eingabe[2].metadaten.schnittstellen[1].elektro
      IN  \A i \in 1..Len(elektro) :
            LET anschluss == elektro[i]
                passend == { j \in 1..Len(versorgungen) :
                               /\ anschluss.versorgung # None
                               /\ Lower(versorgungen[j].referenz[1])
                                    = Lower(anschluss.versorgung[1]) }
                treffer == BefundeZuPlan(ausgabe, anschluss.plan_ref[1])
            IN  \A j \in passend :
                  ( /\ passend = { j }
                    /\ Angegeben(anschluss.leistung_kw)
                    /\ anschluss.leistung_kw[1].wert > 0
                    /\ ErklaertKapazitaet(versorgungen[j]) )
                  => LET kapazitaet ==
                             versorgungen[j][CHOOSE k \in KapazitaetsSchluessel(versorgungen[j]) :
                                               TRUE][1].wert
                         leistung == anschluss.leistung_kw[1].wert
                     IN  IF kapazitaet + Epsilon < leistung
                         THEN /\ Len(treffer) = 1
                              /\ treffer[1].prioritaet = "hoch"
                              /\ treffer[1].id[Len(treffer[1].id)] = "unterdimensioniert"
                              /\ treffer[1].beschreibung.zahlen
                                   = << Runde(kapazitaet, ZehntelKw), Runde(leistung, ZehntelKw),
                                        Runde(leistung - kapazitaet, ZehntelKw) >>
                         ELSE treffer = << >>

\* the finding expected for an extracted requirement: (priority, kind) or nothing
ErwarteterSchnittstellenBefund(entry, elektro_schnittstellen) ==
    LET key == Lower(entry.versorgung)
    IN  IF key = "" THEN << << "mittel", "ohne_zuordnung" >> >>
        ELSE IF key \notin DOMAIN elektro_schnittstellen THEN << << "mittel", "fehlt" >> >>
        ELSE IF entry.leistung = None THEN << >>
        ELSE IF entry.leistung[1] <= 0 THEN << >>
        ELSE IF elektro_schnittstellen[key].kapazitaet = None
        THEN << << "mittel", "unbekannt" >> >>
        ELSE IF elektro_schnittstellen[key].kapazitaet[1] + Epsilon < entry.leistung[1]
        THEN << << "hoch", "unterdimensioniert" >> >>
        ELSE << >>

\* C6: for every heating requirement, _pruefe_schnittstellen emits at most one
\* finding, chosen by the first applicable branch: no reference key gives a
\* medium 'ohne_zuordnung' finding; a key without matching supply a medium
\* 'fehlt' finding; absent or non-positive demand none; a matched supply
\* without capacity a medium 'unbekannt' finding; capacity below demand the
\* high 'unterdimensioniert' finding
C6_HoechstensEinBefundJeAnschluss ==
    schritt = "fertig" =>
      LET anschluesse == lokale.heizung_schnittstellen
      IN  /\ \A i \in 1..Len(anschluesse) :
                LET treffer == BefundeZuPlan(ausgabe, anschluesse[i].plan_ref)
                    erwartet == ErwarteterSchnittstellenBefund(anschluesse[i],
                                                               lokale.elektro_schnittstellen)
                IN  /\ Len(treffer) <= 1
                    /\ Len(treffer) = Len(erwartet)
                    /\ \A n \in 1..Len(treffer) :
                         /\ treffer[n].prioritaet = erwartet[n][1]
                         /\ treffer[n].id[Len(treffer[n].id)] = erwartet[n][2]
          /\ \A n \in 1..Len(ausgabe) :
                \E i \in 1..Len(anschluesse) :
                    ausgabe[n].plan_referenz[1] = anschluesse[i].plan_ref

\* a requirement without key and without demand got 'ohne_zuordnung', and a
\* second requirement of 18 kW on a supply of 15 kW got 'unterdimensioniert'
C6_Witness ==
    /\ schritt = "fertig"
    /\ Len(lokale.heizung_schnittstellen) = 2
    /\ lokale.heizung_schnittstellen[1].versorgung = ""
    /\ lokale.heizung_schnittstellen[1].leistung = None
    /\ lokale.elektro_schnittstellen["hk1"].kapazitaet = Some(Kw15)
    /\ Len(ausgabe) = 2
    /\ ausgabe[1].id[Len(ausgabe[1].id)] = "ohne_zuordnung"
    /\ ausgabe[2].id[Len(ausgabe[2].id)] = "unterdimensioniert"
    /\ ausgabe[2].prioritaet = "hoch"

---------------------------------------------------------------------------
(* specification of _pruefe_sud_planung applied to bounded penetration data *)

\* largest excess of a deviation over its tolerance, in 0.1 mm
MaxUeber == 1

Masse(breite, hoehe) == Some(Dimensionen(Some(Zahl(breite)), Some(Zahl(hoehe)), None))

Ort(x, y) == Some(Lage(Some(Zahl(x)), Some(Zahl(y))))

\* requested dimensions: none, 0.40 x 0.40, 0.10 x 0.10, a diameter of 0.40,
\* and a width of 0
SollMasse ==
    { None, Masse(4000, 4000), Masse(1000, 1000),
      Some(Dimensionen(None, None, Some(Zahl(4000)))), Masse(0, 4000) }

SollOrte == { None, Ort(0, 0), Ort(10000, 20000) }

\* confirmed dimensions around the tolerances of 0.04 and 0.02
IstMasse ==
    { None, Masse(3900, 4100), Masse(3000, 3000) }
    \cup { Masse(3600 - k, 4000) : k \in 0..MaxUeber }
    \cup { Masse(4000, 4400 + k) : k \in 0..MaxUeber }
    \cup { Masse(1200 + k, 1000) : k \in 0..MaxUeber }

\* confirmed positions around the tolerance of 0.10
IstOrte ==
    { None, Ort(0, 0), Ort(5000, 0) }
    \cup { Ort(11000 + k, 20000) : k \in 0..MaxUeber }
    \cup { Ort(10000, 19000 - k) : k \in 0..MaxUeber }

Anforderungslisten ==
    { << SudEintrag(Some("D1"), None, geschoss, dimensionen, lage, Some("S-1")) >> \o weitere :
        geschoss \in { None, Some("EG") },
        dimensionen \in SollMasse,
        lage \in SollOrte,
        weitere \in { << >>,
                      << SudEintrag(None, Some("D2"), None, None, None, Some("S-2")) >> } }

Bestaetigungslisten ==
    { << SudEintrag(None, referenz, geschoss, dimensionen, lage, Some("B-1")) >> \o weitere :
        referenz \in { Some("d1"), Some("D2") },
        geschoss \in { None, Some("eg"), Some("OG") },
        dimensionen \in IstMasse,
        lage \in IstOrte,
        weitere \in { << >>,
                      << SudEintrag(Some("D1 "), None, Some("OG"), None, None, Some("B-2")) >> } }

SudEingaben ==
    { << Dokument("d1", "heizung.pdf", "kg420_heizung", "plan",
                  [ MetaLeer EXCEPT !.sud = Sud(anforderungen, << >>) ], None),
         Dokument("d2", "tragwerk.pdf", "kg410_sanitaer", "plan",
                  [ MetaLeer EXCEPT !.sud = Sud(<< >>, bestaetigt) ], None) >> :
        anforderungen \in Anforderungslisten, bestaetigt \in Bestaetigungslisten }

InitSud ==
    /\ InitLaufAus
    /\ eingabe \in SudEingaben
    /\ ausgabe = << >>
    /\ lokale = << >>
    /\ schritt = "bereit"

\* await self._pruefe_sud_planung(auftrag) for the documents in eingabe
SudPruefung ==
    /\ schritt = "bereit"
    /\ ausgabe' = PruefeSudPlanung(eingabe)
    /\ lokale' = [ anforderungen |-> Anforderungen(eingabe),
                   bestaetigungen |-> Bestaetigungen(eingabe) ]
    /\ schritt' = "fertig"
    /\ UNCHANGED eingabe
    /\ UNCHANGED runVars

NextSud == SudPruefung

SpecSud == InitSud /\ [][NextSud]_vars

\* the last part of a finding id: the kind of the finding
Art(befund) == befund.id[Len(befund.id)]

\* the confirmations whose key equals the requirement id without regard to case
Passende(anforderung, bestaetigungen) ==
    IF Lower(anforderung.id) \in DOMAIN bestaetigungen
    THEN bestaetigungen[Lower(anforderung.id)]
    ELSE << >>

\* both declare a level and the levels differ without regard to case
GeschossVerschieden(anforderung, bestaetigung) ==
    /\ anforderung.geschoss # None
    /\ bestaetigung.geschoss # None
    /\ Lower(anforderung.geschoss[1]) # Lower(bestaetigung.geschoss[1])

\* |delta| > max(0.02, 10% of the larger requested dimension), in tenfold units
MassUeberToleranz(soll, ist) ==
    LET grenze == Max(10 * 200, Max(soll[1], soll[2]))
    IN  10 * Abs(soll[1] - ist[1]) > grenze \/ 10 * Abs(soll[2] - ist[2]) > grenze

MasseVerschieden(anforderung, bestaetigung) ==
    /\ anforderung.dimensionen # None
    /\ bestaetigung.dimensionen # None
    /\ MassUeberToleranz(anforderung.dimensionen[1], bestaetigung.dimensionen[1])

\* |delta x| > 0.10 or |delta y| > 0.10
OrtUeberToleranz(soll, ist) ==
    Abs(soll[1] - ist[1]) > 1000 \/ Abs(soll[2] - ist[2]) > 1000

OrtVerschieden(anforderung, bestaetigung) ==
    /\ anforderung.position # None
    /\ bestaetigung.position # None
    /\ OrtUeberToleranz(anforderung.position[1], bestaetigung.position[1])

\* C7: for every penetration requirement, _pruefe_sud_planung emits at most
\* one finding: without a confirmation of case-insensitively equal id exactly
\* one high-priority 'fehlend' finding; otherwise only the first failing check
\* in the order level, dimension, position (each medium priority), and a
\* level mismatch stops the dimension and position checks
C7_HoechstensEinBefundJeDurchbruch ==
    schritt = "fertig" =>
      /\ \A i \in 1..Len(lokale.anforderungen) :
           LET anforderung == lokale.anforderungen[i]
               passende == Passende(anforderung, lokale.bestaetigungen)
               treffer == BefundeZuPlan(ausgabe, anforderung.plan_ref)
               erwartet ==
                   IF passende = << >> THEN << << "hoch", "fehlend" >> >>
                   ELSE IF GeschossVerschieden(anforderung, passende[1])
                   THEN << << "mittel", "geschoss" >> >>
                   ELSE IF MasseVerschieden(anforderung, passende[1])
                   THEN << << "mittel", "abmessung" >> >>
                   ELSE IF OrtVerschieden(anforderung, passende[1])
                   THEN << << "mittel", "lage" >> >>
                   ELSE << >>
           IN  /\ Len(treffer) <= 1
               /\ Len(treffer) = Len(erwartet)
               /\ \A n \in 1..Len(treffer) :
                    /\ treffer[n].prioritaet = erwartet[n][1]
                    /\ Art(treffer[n]) = erwartet[n][2]
      /\ \A n \in 1..Len(ausgabe) :
           \E i \in 1..Len(lokale.anforderungen) :
               ausgabe[n].plan_referenz[1] = lokale.anforderungen[i].plan_ref

\* requirement D1 on level EG is confirmed on level OG with dimensions and
\* position that also deviate: the level finding alone is reported, and the
\* unconfirmed requirement D2 gets its 'fehlend' finding
C7_Witness ==
    /\ schritt = "fertig"
    /\ Len(lokale.anforderungen) = 2
    /\ Passende(lokale.anforderungen[1], lokale.bestaetigungen) # << >>
    /\ Passende(lokale.anforderungen[2], lokale.bestaetigungen) = << >>
    /\ GeschossVerschieden(lokale.anforderungen[1],
                           Passende(lokale.anforderungen[1], lokale.bestaetigungen)[1])
    /\ MasseVerschieden(lokale.anforderungen[1],
                        Passende(lokale.anforderungen[1], lokale.bestaetigungen)[1])
    /\ OrtVerschieden(lokale.anforderungen[1],
                      Passende(lokale.anforderungen[1], lokale.bestaetigungen)[1])
    /\ Len(ausgabe) = 2
    /\ Art(ausgabe[1]) = "geschoss"
    /\ Art(ausgabe[2]) = "fehlend"

ErklaerterOrt(eintrag) ==
    IF eintrag.lage = None THEN None
    ELSE IF Angegeben(eintrag.lage[1].x) /\ Angegeben(eintrag.lage[1].y)
    THEN Some(<< eintrag.lage[1].x[1].wert, eintrag.lage[1].y[1].wert >>)
    ELSE None

\* C9: for every requirement and its confirmation that both declare an (x, y)
\* position, for all coordinate values including 0, and that pass the level
\* and dimension checks, a position finding is emitted if and only if
\* |delta x| > 0.10 m or |delta y| > 0.10 m
C9_LageGenauUeberToleranz ==
    schritt = "fertig" =>
      LET roh_anforderungen == eingabe[1].metadaten.sud[1].anforderungen
          roh_bestaetigt == eingabe[2].metadaten.sud[1].bestaetigt
      IN  \A i \in 1..Len(lokale.anforderungen) :
            LET anforderung == lokale.anforderungen[i]
                passende == Passende(anforderung, lokale.bestaetigungen)
                treffer == BefundeZuPlan(ausgabe, anforderung.plan_ref)
                lage == SelectSeq(treffer, LAMBDA f : Art(f) = "lage")
                soll == ErklaerterOrt(roh_anforderungen[i])
            IN  \A j \in 1..Len(roh_bestaetigt) :
                  ( /\ passende # << >>
                    /\ passende[1].plan_ref = roh_bestaetigt[j].plan_ref[1]
                    /\ soll # None
                    /\ ErklaerterOrt(roh_bestaetigt[j]) # None
                    /\ ~ GeschossVerschieden(anforderung, passende[1])
                    /\ ~ MasseVerschieden(anforderung, passende[1]) )
                  => Len(lage) = (IF OrtUeberToleranz(soll[1], ErklaerterOrt(roh_bestaetigt[j])[1])
                                  THEN 1 ELSE 0)

---------------------------------------------------------------------------
(* checks/common.py: guard *)

\* a candidate of guard: a value, or a producer (callable) returning it; the
\* value is None, one Finding or a sequence of findings, and a producer may
\* raise when it is called
Kandidat(callable, art, wert) == [ callable |-> callable, art |-> art, wert |-> wert ]

\* variant that only looks at enabled
GuardOhneBedingung(condition, candidate, enabled) ==
    IF ~ enabled THEN [ exc |-> "none", wert |-> << >>, aufrufe |-> 0 ]
    ELSE [ exc |-> IF candidate.art = "raises" THEN "RuntimeError" ELSE "none",
           wert |-> CASE candidate.art = "finding" -> << candidate.wert >>
                      [] candidate.art = "liste" -> candidate.wert
                      [] OTHER -> << >>,
           aufrufe |-> IF candidate.callable THEN 1 ELSE 0 ]

\* guard: the returned list, the exception that left it and the number of
\* calls of the producer
Guard(condition, candidate, enabled) ==
    IF ~ enabled \/ condition
    THEN [ exc |-> "none", wert |-> << >>, aufrufe |-> 0 ]
    ELSE LET aufrufe == IF candidate.callable THEN 1 ELSE 0
         IN  CASE candidate.art = "raises" ->
                    [ exc |-> "RuntimeError", wert |-> << >>, aufrufe |-> aufrufe ]
               [] candidate.art = "none" ->
                    [ exc |-> "none", wert |-> << >>, aufrufe |-> aufrufe ]
               [] candidate.art = "finding" ->
                    [ exc |-> "none", wert |-> << candidate.wert >>, aufrufe |-> aufrufe ]
               [] OTHER ->
                    [ exc |-> "none", wert |-> candidate.wert, aufrufe |-> aufrufe ]

---------------------------------------------------------------------------
(* specification of guard applied to bounded candidates *)

\* longest sequence a producer returns
MaxProduziert == 2

GuardBefunde ==
    { RuleFinding(<< "kg420", "0001" >>, "hoch", 55, None),
      RuleFinding(<< "kg410", "temp" >>, "hoch", 85, Some("d1")) }

GuardListen ==
    UNION { [ 1..n -> GuardBefunde ] : n \in 0..MaxProduziert }

GuardKandidaten ==
    { Kandidat(c, "none", << >>) : c \in BOOLEAN }
      \cup { Kandidat(c, "finding", f) : c \in BOOLEAN, f \in GuardBefunde }
      \cup { Kandidat(c, "liste", l) : c \in BOOLEAN, l \in GuardListen }
      \cup { Kandidat(TRUE, "raises", << >>) }

GuardEingaben ==
    [ condition : BOOLEAN, candidate : GuardKandidaten, enabled : BOOLEAN ]

InitGuard ==
    /\ InitLaufAus
    /\ eingabe \in GuardEingaben
    /\ ausgabe = << >>
    /\ lokale = << >>
    /\ schritt = "bereit"

GuardAufruf ==
    /\ schritt = "bereit"
    /\ ausgabe' = Guard(eingabe.condition, eingabe.candidate, eingabe.enabled)
    /\ schritt' = "fertig"
    /\ UNCHANGED << eingabe, lokale >>
    /\ UNCHANGED runVars

NextGuard == GuardAufruf

SpecGuard == InitGuard /\ [][NextGuard]_vars

\* C14: guard returns the empty list without calling the producer whenever
\* enabled is false or condition is true; otherwise it calls the producer
\* exactly once and returns its normalized result: [] for None, a one-element
\* list for a single Finding, the list of the findings for a sequence
C14_GuardNormalisiert ==
    schritt = "fertig" =>
      LET c == eingabe.candidate
      IN  IF ~ eingabe.enabled \/ eingabe.condition
          THEN ausgabe = [ exc |-> "none", wert |-> << >>, aufrufe |-> 0 ]
          ELSE c.callable =>
                 /\ ausgabe.aufrufe = 1
                 /\ c.art = "none" => ausgabe.exc = "none" /\ ausgabe.wert = << >>
                 /\ c.art = "finding" => ausgabe.exc = "none" /\ ausgabe.wert = << c.wert >>
                 /\ c.art = "liste" =>
                       /\ ausgabe.exc = "none"
                       /\ Len(ausgabe.wert) = Len(c.wert)
                       /\ \A i \in 1..Len(c.wert) : ausgabe.wert[i] = c.wert[i]

\* a producer that raises when called was passed with a true condition and
\* guard returned the empty list without calling it
C14_Witness ==
    /\ schritt = "fertig"
    /\ eingabe.condition
    /\ eingabe.enabled
    /\ eingabe.candidate = Kandidat(TRUE, "raises", << >>)
    /\ ausgabe = [ exc |-> "none", wert |-> << >>, aufrufe |-> 0 ]

---------------------------------------------------------------------------
(* checks: values, catalog and helpers of the rule evaluators *)

\* a string with a decimal comma such as "1,5": float() rejects it, the
\* _to_float helpers read it as wert after "," became "."
Komma(n) == [ art |-> "komma", wert |-> n ]

\* float(value) of a value that is not None: the number, or ValueError
Float(value) ==
    IF value.art \in { "zahl", "text" } THEN [ exc |-> "none", wert |-> value.wert ]
    ELSE [ exc |-> "ValueError", wert |-> 0 ]

\* a _to_float that reads a missing value as 0
CheckToFloatNull(value) ==
    IF value = None THEN Some(0)
    ELSE IF value[1].art \in { "zahl", "text", "komma" } THEN Some(value[1].wert)
    ELSE None

\* _to_float of the check modules: None for None and for what float() rejects
\* also after "," became "."
CheckToFloat(value) ==
    IF value = None THEN None
    ELSE IF value[1].art \in { "zahl", "text", "komma" } THEN Some(value[1].wert)
    ELSE None

\* checks.common.Finding as the evaluators build it; the id is the tuple of
\* the parts of its f-string
CheckFinding(id, prioritaet, titel, konfidenz_score, dokument_id) ==
    [ id |-> id, kategorie |-> "technisch", prioritaet |-> prioritaet, titel |-> titel,
      konfidenz_score |-> konfidenz_score, dokument_id |-> dokument_id,
      plan_referenz |-> None ]

\* guard(condition, lambda: Finding(...)) as the evaluators call it
GuardLambda(condition, finding) ==
    Guard(condition, Kandidat(TRUE, "finding", finding), TRUE).wert

\* the findings of a loop over entities: an exception in one entity leaves
\* the evaluator and the findings gathered so far are lost
Sammle(teile) ==
    IF \E i \in 1..Len(teile) : teile[i].exc # "none"
    THEN [ exc |-> teile[CHOOSE i \in 1..Len(teile) :
                                /\ teile[i].exc # "none"
                                /\ \A k \in 1..(i - 1) : teile[k].exc = "none"].exc,
           wert |-> << >> ]
    ELSE [ exc |-> "none",
           wert |-> Flatten([ i \in 1..Len(teile) |-> teile[i].wert ]) ]

\* a / b < p / q for b # 0 and q > 0
QuotientKleiner(a, b, p, q) == IF b > 0 THEN a * q < p * b ELSE a * q > p * b

\* PARAMS.  Units: temperatures in deg C, velocities in 0.1 m/s, thicknesses in
\* mm, pressures in 0.1 bar, COP in tenths, efficiencies and fill levels in
\* hundredths, air change and voltage drop in tenths, sprinkler density in
\* tenths, point density in tenths per 100 m2.  Dictionaries are sequences of
\* (key, value) in insertion order, sets are sets
PARAMS ==
    [ kg410 |-> [ hot_water_temp_min |-> 55, circulation_temp_min |-> 50,
                  max_stagnation_hours |-> 72,
                  max_velocity |-> << << "kaltwasser", 20 >>, << "warmwasser", 15 >>,
                                      << "zirkulation", 8 >>, << "abwasser", 25 >> >>,
                  material_blacklist |-> << << "warmwasser", { "verzinkter Stahl" } >> >>,
                  backflow_required_for |-> { "gewerblich", "labor", "krankenhaus" },
                  insulation_min |-> << << "warmwasser", 13 >>, << "zirkulation", 20 >> >> ],
      kg420 |-> [ specific_load |->
                      << << "wohngebaeude", [ min |-> 30, max |-> 100 ] >>,
                         << "buerogebaeude", [ min |-> 40, max |-> 95 ] >>,
                         << "schule", [ min |-> 35, max |-> 110 ] >>,
                         << "krankenhaus", [ min |-> 45, max |-> 130 ] >>,
                         << "industriebau", [ min |-> 35, max |-> 160 ] >> >>,
                  supply_temp_max |-> 70, return_temp_max |-> 55,
                  pressure_min |-> 15, pressure_max |-> 30,
                  hydraulic_balance_required |-> TRUE,
                  generator_margin |-> 115, cop_min |-> 35,
                  boiler_efficiency_min |-> 92, delta_t_tolerance |-> 5 ],
      kg430 |-> [ air_change |->
                      << << "wohngebaeude", [ min |-> 5, max |-> 30 ] >>,
                         << "buerogebaeude", [ min |-> 7, max |-> 60 ] >>,
                         << "schule", [ min |-> 30, max |-> 60 ] >>,
                         << "krankenhaus", [ min |-> 60, max |-> 150 ] >>,
                         << "industriebau", [ min |-> 20, max |-> 200 ] >> >>,
                  outdoor_air_per_person |->
                      << << "wohngebaeude", 30 >>, << "buerogebaeude", 36 >>,
                         << "schule", 30 >>, << "krankenhaus", 40 >>,
                         << "industriebau", 25 >> >>,
                  co2_limit |-> 1000, balance_tolerance |-> 10,
                  wrg_required |-> TRUE, wrg_eta_min |-> 75 ],
      kg440 |-> [ voltage_drop_max_percent |-> 30,
                  lighting_power_density |->
                      << << "buerogebaeude", 12 >>, << "schule", 15 >>,
                         << "industrie", 18 >> >>,
                  emergency_lighting_required |-> { "buerogebaeude", "schule", "krankenhaus" },
                  ups_required_for |-> { "rechenzentrum", "operationssaal" },
                  diversity_factor_range |-> << 60, 90 >> ],
      kg450 |-> [ redundant_paths_required |-> { "krankenhaus", "rechenzentrum" },
                  fire_alarm_standard |-> "DIN 14675",
                  data_rack_fill_max |-> 80,
                  cable_shielding_required |-> { "labor", "industrie" } ],
      kg474 |-> [ sprinkler_density |->
                      << << "hoch", 50 >>, << "normal", 25 >>, << "niedrig", 15 >> >>,
                  water_supply_duration_min |-> 30,
                  pump_redundancy_required |-> { "hoch", "krankenhaus" } ],
      kg480 |-> [ bacs_classes |->
                      << << "kg420", "A" >>, << "kg430", "A" >>, << "kg440", "B" >>,
                         << "kg450", "B" >> >>,
                  point_density_min |->
                      << << "hvac", 15 >>, << "lighting", 10 >>, << "metering", 5 >> >>,
                  trend_storage_days_min |-> 30, alarm_response_time_max |-> 300 ] ]

\* dict.get(key): the value under key of a dictionary given as a sequence of
\* (key, value), None when the key is missing
DictGet(dict, key) ==
    IF \E i \in 1..Len(dict) : dict[i][1] = key
    THEN Some(dict[CHOOSE i \in 1..Len(dict) : dict[i][1] = key][2])
    ELSE None

\* mapping.get(key) of a nested mapping that may be missing
Feld(mapping, key) == IF mapping = None THEN None ELSE mapping[1][key]

\* float(value) inside try/except (TypeError, ValueError): None when rejected
FloatOderNone(value) ==
    IF value = None THEN None
    ELSE IF Float(value[1]).exc = "none" THEN Some(Float(value[1]).wert) ELSE None

---------------------------------------------------------------------------
(* checks/kg410_sanitary.py *)

\* _system_label
SystemLabel(system) == OrStr(<< system.name, system.id, Some("System") >>)[1]

\* the body of the loop over the systems (lines 42-188)
Kg410System(system) ==
    LET p == PARAMS.kg410
        label == SystemLabel(system)
        dok == system.dokument_id
        hot == system.hot_water_temp
        circ == system.circulation_temp
        hot_f == IF hot = None THEN [ exc |-> "none", wert |-> 0 ] ELSE Float(hot[1])
        circ_f == IF circ = None THEN [ exc |-> "none", wert |-> 0 ] ELSE Float(circ[1])
        temp == GuardLambda(hot = None \/ hot_f.wert >= p.hot_water_temp_min,
                    CheckFinding(<< "kg410_", label, "_temp" >>, "hoch",
                                 "Trinkwarmwasser nicht ausreichend aufgeheizt", 85, dok))
        temp_missing ==
            GuardLambda(hot # None,
                [ CheckFinding(<< "kg410_", label, "_temp_missing" >>, "niedrig",
                               "Keine Warmwassertemperatur dokumentiert", 40, dok)
                    EXCEPT !.kategorie = "hinweis" ])
        zirkulation ==
            GuardLambda(circ = None \/ circ_f.wert >= p.circulation_temp_min,
                CheckFinding(<< "kg410_", label, "_zirkulation" >>, "mittel",
                             "Zirkulationsrücklauftemperatur zu niedrig", 80, dok))
        velocity ==
            Flatten([ i \in 1..Len(p.max_velocity) |->
                LET medium == p.max_velocity[i][1]
                    value == FloatOderNone(Feld(system.velocities, medium))
                IN  IF value # None /\ value[1] > p.max_velocity[i][2]
                    THEN << CheckFinding(<< "kg410_", label, "_velocity_", medium >>, "mittel",
                                "Strömungsgeschwindigkeit überschreitet Grenzwert", 78, dok) >>
                    ELSE << >> ])
        material ==
            Flatten([ i \in 1..Len(p.material_blacklist) |->
                LET medium == p.material_blacklist[i][1]
                    mat == Feld(system.materials, medium)
                IN  IF /\ TruthyStr(mat)
                       /\ Lower(mat[1]) \in { Lower(e) : e \in p.material_blacklist[i][2] }
                    THEN << CheckFinding(<< "kg410_", label, "_material_", medium >>, "hoch",
                                "Nicht zulässiges Werkstoffkonzept", 82, dok) >>
                    ELSE << >> ])
        insulation ==
            Flatten([ i \in 1..Len(p.insulation_min) |->
                LET medium == p.insulation_min[i][1]
                    thickness == FloatOderNone(Feld(system.insulation, medium))
                IN  IF thickness # None /\ thickness[1] < p.insulation_min[i][2]
                    THEN << CheckFinding(<< "kg410_", label, "_insulation_", medium >>, "mittel",
                                "Dämmstärke unterschreitet GEG-Anforderung", 76, dok) >>
                    ELSE << >> ])
    IN  IF hot_f.exc # "none" THEN [ exc |-> hot_f.exc, wert |-> << >> ]
        ELSE IF circ_f.exc # "none" THEN [ exc |-> circ_f.exc, wert |-> << >> ]
        ELSE [ exc |-> "none",
               wert |-> temp \o temp_missing \o zirkulation \o velocity \o material
                          \o insulation ]

\* the body of the loop over the fixtures (lines 190-238); a missing id reads
\* as 'unbekannt'
Kg410Fixture(fixture, projekt_typ) ==
    LET p == PARAMS.kg410
        bereich == OrStr(<< fixture.bereich, fixture.nutzung >>)
        hours == FloatOderNone(fixture.stagnation_hours)
        fid == IF fixture.id = None THEN "unbekannt" ELSE fixture.id[1]
        stagnation ==
            IF hours # None /\ hours[1] # 0 /\ hours[1] > p.max_stagnation_hours
            THEN << CheckFinding(<< "kg410_fixture_", fid, "_stagnation" >>, "hoch",
                        "Stagnationszeiten überschreiten Trinkwasseranforderungen", 74,
                        fixture.dokument_id) >>
            ELSE << >>
        erforderlich == /\ TruthyStr(bereich)
                        /\ TruthyStr(projekt_typ)
                        /\ projekt_typ[1] \in p.backflow_required_for
        ruecksaug ==
            GuardLambda(~ erforderlich \/ fixture.backflow_protection = Some(TRUE),
                CheckFinding(<< "kg410_fixture_", fid, "_ruecksaugsicherung" >>, "hoch",
                             "Rückflussverhinderer erforderlich", 81, fixture.dokument_id))
    IN  stagnation \o ruecksaug

\* evaluate of kg410_sanitary
EvaluateKg410(context) ==
    LET head == GuardLambda(context.systems # << >>,
                    CheckFinding(<< "kg410_0001" >>, "hoch",
                                 "Keine Trinkwasseranlagen gefunden", 60, None))
        systems == Sammle([ i \in 1..Len(context.systems) |->
                              Kg410System(context.systems[i]) ])
        fixtures == Flatten([ i \in 1..Len(context.fixtures) |->
                                Kg410Fixture(context.fixtures[i], context.projekt_typ) ])
    IN  IF systems.exc # "none" THEN systems
        ELSE [ exc |-> "none", wert |-> head \o systems.wert \o fixtures ]

---------------------------------------------------------------------------
(* checks/kg420_heating.py.  Loads and powers are multiples of 0.001 kW *)

RequiredComponents ==
    { "wärmeerzeuger", "umwälzpumpe", "ausdehnungsgefäß", "sicherheitsventil", "manometer" }

\* the share of a room in the summed load (lines 57-63): values above 1000
\* are read as W and divided by 1000
RECURSIVE SummeHeizlast(_)
SummeHeizlast(rooms) ==
    IF rooms = << >> THEN 0
    ELSE LET value == CheckToFloat(Head(rooms).heizlast)
             anteil == IF value = None THEN 0
                       ELSE IF value[1] > 1000 * 1000 THEN value[1] \div 1000
                       ELSE value[1]
         IN  anteil + SummeHeizlast(Tail(rooms))

\* a room check that reports every value outside the range as too high
Kg420RoomOhneRichtung(room, range_data) ==
    LET specific_value == FloatOderNone(room.spezifische_heizlast)
        name == IF room.name = None THEN "unbekannt" ELSE room.name[1]
    IN  IF /\ specific_value # None
           /\ range_data # None
           /\ \/ specific_value[1] > range_data[1].max
              \/ specific_value[1] < range_data[1].min
        THEN << CheckFinding(<< "kg420_room_", name, "_hoch" >>, "mittel",
                    "Spezifische Heizlast über Richtwert", 82, None) >>
        ELSE << >>

\* the body of the loop over the rooms (lines 65-106); a missing name reads
\* as 'unbekannt'
Kg420Room(room, range_data) ==
    LET specific_value == FloatOderNone(room.spezifische_heizlast)
        name == IF room.name = None THEN "unbekannt" ELSE room.name[1]
    IN  IF specific_value = None THEN << >>
        ELSE (IF range_data # None /\ specific_value[1] > range_data[1].max
              THEN << CheckFinding(<< "kg420_room_", name, "_hoch" >>, "mittel",
                          "Spezifische Heizlast über Richtwert", 82, None) >>
              ELSE << >>)
             \o
             (IF range_data # None /\ specific_value[1] < range_data[1].min
              THEN << CheckFinding(<< "kg420_room_", name, "_niedrig" >>, "niedrig",
                          "Spezifische Heizlast auffällig niedrig", 70, None) >>
              ELSE << >>)

\* a 'no data' finding with the priority of the one of kg440
Kg420OhneDatenMittel(rooms) ==
    GuardLambda(rooms # << >>,
        CheckFinding(<< "kg420_0001" >>, "mittel", "Keine Heizlastdaten gefunden", 55, None))

\* the 'no data' finding for an empty list of rooms (lines 36-50)
Kg420OhneDaten(rooms) ==
    GuardLambda(rooms # << >>,
        CheckFinding(<< "kg420_0001" >>, "hoch", "Keine Heizlastdaten gefunden", 55, None))

\* evaluate of kg420_heating
EvaluateKg420(context) ==
    LET p == PARAMS.kg420
        projekt_typ == OrStr(<< context.projekt_typ, Some("buerogebaeude") >>)[1]
        load_section == context.heating_load
        rooms == IF load_section = None THEN << >> ELSE load_section[1].rooms
        system == context.system
        generator == context.generator
        head == Kg420OhneDaten(rooms)
        range_data == IF DictGet(p.specific_load, projekt_typ) # None
                      THEN DictGet(p.specific_load, projekt_typ)
                      ELSE DictGet(p.specific_load, "buerogebaeude")
        total_roh == CheckToFloat(Feld(load_section, "total"))
        total_load == IF total_roh # None THEN total_roh[1] ELSE SummeHeizlast(rooms)
        raeume == Flatten([ i \in 1..Len(rooms) |-> Kg420Room(rooms[i], range_data) ])
        supply_temp == CheckToFloat(Feld(system, "supply_temperature"))
        return_temp == CheckToFloat(Feld(system, "return_temperature"))
        system_pressure == CheckToFloat(Feld(system, "pressure"))
        vorlauf == GuardLambda(supply_temp = None \/ supply_temp[1] <= p.supply_temp_max,
                       CheckFinding(<< "kg420_vorlauf_001" >>, "mittel",
                                    "Vorlauftemperatur über Grenzwert", 78, None))
        ruecklauf == GuardLambda(return_temp = None \/ return_temp[1] <= p.return_temp_max,
                         CheckFinding(<< "kg420_ruecklauf_001" >>, "niedrig",
                                      "Rücklauftemperatur über Richtwert", 72, None))
        delta_t == IF /\ supply_temp # None
                      /\ return_temp # None
                      /\ supply_temp[1] > return_temp[1]
                      /\ supply_temp[1] - return_temp[1] < p.delta_t_tolerance
                   THEN << CheckFinding(<< "kg420_deltaT_001" >>, "mittel",
                               "Temperaturspreizung zu gering", 69, None) >>
                   ELSE << >>
        druck == IF system_pressure = None THEN << >>
                 ELSE IF system_pressure[1] < p.pressure_min
                 THEN << CheckFinding(<< "kg420_druck_min" >>, "mittel",
                             "Anlagendruck zu niedrig", 77, None) >>
                 ELSE IF system_pressure[1] > p.pressure_max
                 THEN << CheckFinding(<< "kg420_druck_max" >>, "hoch",
                             "Anlagendruck oberhalb Sicherheitsgrenze", 84, None) >>
                 ELSE << >>
        hydraulik == IF p.hydraulic_balance_required
                     THEN GuardLambda(Feld(system, "hydraulic_balancing") = Some(TRUE),
                              CheckFinding(<< "kg420_hydraulik_001" >>, "hoch",
                                           "Nachweis hydraulischer Abgleich fehlt", 88, None))
                     ELSE << >>
        components == IF system = None THEN << >> ELSE system[1].components
        missing_raw == RequiredComponents
                         \ { Lower(components[i]) : i \in 1..Len(components) }
        komponenten == IF missing_raw # {}
                       THEN << CheckFinding(<< "kg420_komponenten_001" >>, "hoch",
                                   "Pflichtkomponenten im Schema nicht nachgewiesen", 83,
                                   None) >>
                       ELSE << >>
        generator_power == CheckToFloat(Feld(generator, "leistung"))
        erzeuger == IF /\ generator_power # None
                       /\ total_load # 0
                       /\ QuotientKleiner(generator_power[1], total_load,
                                          p.generator_margin, 100)
                    THEN << CheckFinding(<< "kg420_erzeuger_001" >>, "hoch",
                                "Wärmeerzeuger zu klein dimensioniert", 86, None) >>
                    ELSE << >>
        gen_type == Lower(OrStr(<< Feld(generator, "typ"), Some("") >>)[1])
        cop == IF TruthyNum(IF CheckToFloat(Feld(generator, "cop")) = None THEN None
                            ELSE Some(Zahl(CheckToFloat(Feld(generator, "cop"))[1])))
               THEN CheckToFloat(Feld(generator, "cop"))
               ELSE CheckToFloat(Feld(generator, "cop_scop"))
        eta == CheckToFloat(Feld(generator, "wirkungsgrad"))
        typ_befunde ==
            IF gen_type = "waermepumpe"
            THEN GuardLambda(cop = None \/ cop[1] >= p.cop_min,
                     CheckFinding(<< "kg420_wp_001" >>, "mittel",
                                  "COP der Wärmepumpe zu niedrig", 80, None))
            ELSE IF gen_type = "gaskessel"
            THEN GuardLambda(eta = None \/ eta[1] >= p.boiler_efficiency_min,
                     CheckFinding(<< "kg420_kessel_001" >>, "hoch",
                                  "Wirkungsgrad des Kessels zu gering", 87, None))
            ELSE << >>
    IN  [ exc |-> "none",
          wert |-> head \o raeume \o vorlauf \o ruecklauf \o delta_t \o druck \o hydraulik
                     \o komponenten \o erzeuger \o typ_befunde ]

---------------------------------------------------------------------------
(* checks/kg430_ventilation.py *)

\* a / b > p / q for b # 0 and q > 0
QuotientGroesser(a, b, p, q) == IF b > 0 THEN a * q > p * b ELSE a * q < p * b

\* the sum of the truthy values of a field over the rooms (lines 52-55)
RECURSIVE SummeLuft(_, _)
SummeLuft(rooms, feld) ==
    IF rooms = << >> THEN 0
    ELSE LET value == CheckToFloat(Head(rooms)[feld])
         IN  (IF value = None THEN 0 ELSE value[1]) + SummeLuft(Tail(rooms), feld)

\* str(f).upper().startswith("F7") or ...startswith("EPM1") on the filter
\* classes of the model
IstFeinfilter(f) == f \in { "F7", "f7", "F7/F9", "ePM1 55%" }

\* the body of the loop over the rooms (lines 44-127)
Kg430Room(room, air_change_range, outdoor_air) ==
    LET p == PARAMS.kg430
        zuluft == CheckToFloat(room.zuluft)
        persons_roh == CheckToFloat(room.persons)
        persons == IF persons_roh = None THEN 0 ELSE persons_roh[1]
        air_change == CheckToFloat(room.air_change)
        co2 == CheckToFloat(room.co2)
        name == IF room.name = None THEN "unbekannt" ELSE room.name[1]
        luftmenge == IF persons > 0 /\ zuluft # None /\ zuluft[1] < outdoor_air * persons
                     THEN << CheckFinding(<< "kg430_", name, "_luftmenge" >>, "hoch",
                                 "Außenluftvolumenstrom je Person zu gering", 83, None) >>
                     ELSE << >>
        wechsel == IF air_change_range = None \/ air_change = None THEN << >>
                   ELSE IF air_change[1] < air_change_range[1].min
                   THEN << CheckFinding(<< "kg430_", name, "_wechsel_min" >>, "mittel",
                               "Luftwechselrate zu gering", 79, None) >>
                   ELSE IF air_change[1] > air_change_range[1].max
                   THEN << CheckFinding(<< "kg430_", name, "_wechsel_max" >>, "niedrig",
                               "Luftwechselrate auffällig hoch", 68, None) >>
                   ELSE << >>
        co2_befund == IF co2 # None /\ co2[1] > p.co2_limit
                      THEN << CheckFinding(<< "kg430_", name, "_co2" >>, "mittel",
                                  "CO₂-Konzentration über Grenzwert", 80, None) >>
                      ELSE << >>
    IN  luftmenge \o wechsel \o co2_befund

\* the body of the loop over the air handling units (lines 149-212)
Kg430Anlage(system) ==
    LET p == PARAMS.kg430
        vol == CheckToFloat(system.volumenstrom)
        wrg == system.waermerueckgewinnung = Some(TRUE)
        eta == CheckToFloat(system.wrg_wirkungsgrad)
        system_id == OrStr(<< system.id, system.nummer, Some("anlage") >>)[1]
        wrg_befund == IF p.wrg_required /\ vol # None /\ vol[1] # 0 /\ vol[1] > 1500
                      THEN GuardLambda(wrg,
                               CheckFinding(<< "kg430_", system_id, "_wrg" >>, "hoch",
                                            "Wärmerückgewinnung fehlt", 85, None))
                      ELSE << >>
        eta_befund == IF wrg /\ eta # None /\ eta[1] < p.wrg_eta_min
                      THEN << CheckFinding(<< "kg430_", system_id, "_eta" >>, "mittel",
                                  "Wirkungsgrad der Wärmerückgewinnung zu gering", 78,
                                  None) >>
                      ELSE << >>
        filter == IF ~ \E i \in 1..Len(system.filterklassen) :
                         IstFeinfilter(system.filterklassen[i])
                  THEN << CheckFinding(<< "kg430_", system_id, "_filter" >>, "mittel",
                              "Filterklasse für Zuluft unzureichend", 76, None) >>
                  ELSE << >>
    IN  wrg_befund \o eta_befund \o filter

\* evaluate of kg430_ventilation
EvaluateKg430(context) ==
    LET p == PARAMS.kg430
        projekt_typ == OrStr(<< context.projekt_typ, Some("buerogebaeude") >>)[1]
        rooms == context.rooms
        head == GuardLambda(rooms # << >>,
                    CheckFinding(<< "kg430_0001" >>, "hoch",
                                 "Keine Luftmengenberechnung gefunden", 55, None))
        air_change_range == IF DictGet(p.air_change, projekt_typ) # None
                            THEN DictGet(p.air_change, projekt_typ)
                            ELSE DictGet(p.air_change, "buerogebaeude")
        outdoor_air == IF DictGet(p.outdoor_air_per_person, projekt_typ) # None
                       THEN DictGet(p.outdoor_air_per_person, projekt_typ)[1]
                       ELSE 30
        total_supply == SummeLuft(rooms, "zuluft")
        total_exhaust == SummeLuft(rooms, "abluft")
        raeume == Flatten([ i \in 1..Len(rooms) |->
                              Kg430Room(rooms[i], air_change_range, outdoor_air) ])
        balance == IF /\ total_supply # 0
                      /\ total_exhaust # 0
                      /\ QuotientGroesser(Abs(total_supply - total_exhaust),
                                          Max(total_supply, total_exhaust),
                                          p.balance_tolerance, 100)
                   THEN << CheckFinding(<< "kg430_balance_001" >>, "mittel",
                               "Zu- und Abluft nicht im Gleichgewicht", 75, None) >>
                   ELSE << >>
        anlagen == Flatten([ i \in 1..Len(context.anlagen) |->
                               Kg430Anlage(context.anlagen[i]) ])
    IN  [ exc |-> "none", wert |-> head \o raeume \o balance \o anlagen ]

---------------------------------------------------------------------------
(* checks/kg440_electrical.py *)

\* the body of the loop over the circuits (lines 41-98)
Kg440Circuit(circuit) ==
    LET p == PARAMS.kg440
        name == OrStr(<< circuit.name, circuit.id, Some("Stromkreis") >>)[1]
        drop == CheckToFloat(circuit.voltage_drop_percent)
        diversity == CheckToFloat(circuit.diversity_factor)
        reserve == CheckToFloat(circuit.reserve_percent)
    IN  (IF drop # None /\ drop[1] > p.voltage_drop_max_percent
         THEN << CheckFinding(<< "kg440_", name, "_spannung" >>, "hoch",
                     "Spannungsfall überschreitet Grenzwert", 82, None) >>
         ELSE << >>)
        \o
        (IF /\ diversity # None
            /\ ~ ( /\ p.diversity_factor_range[1] <= diversity[1]
                   /\ diversity[1] <= p.diversity_factor_range[2] )
         THEN << CheckFinding(<< "kg440_", name, "_diversity" >>, "mittel",
                     "Gleichzeitigkeitsfaktor außerhalb Erfahrungswert", 70, None) >>
         ELSE << >>)
        \o
        (IF reserve # None /\ reserve[1] < 10
         THEN << CheckFinding(<< "kg440_", name, "_reserve" >>, "niedrig",
                     "Geringe Leistungsreserve", 65, None) >>
         ELSE << >>)

\* the body of the loop over the lighting zones (lines 101-124); a missing id
\* reads as 'zone'
Kg440Zone(zone, projekt_typ) ==
    LET p == PARAMS.kg440
        area == CheckToFloat(zone.flaeche)
        power == CheckToFloat(zone.leistung)
        nutzung == OrStr(<< zone.nutzung, Some(projekt_typ) >>)[1]
        limit == DictGet(p.lighting_power_density, nutzung)
        zid == IF zone.id = None THEN "zone" ELSE zone.id[1]
    IN  IF /\ area # None
           /\ area[1] # 0
           /\ power # None
           /\ power[1] # 0
           /\ limit # None
           /\ area[1] > 0
           /\ power[1] > limit[1] * area[1]
        THEN << CheckFinding(<< "kg440_beleuchtung_", zid >>, "mittel",
                    "Lichtleistungsdichte über Richtwert", 73, None) >>
        ELSE << >>

\* evaluate of kg440_electrical; reihenfolge is the order in which the
\* interpreter iterates over the set ups_required_for
EvaluateKg440(context, reihenfolge) ==
    LET p == PARAMS.kg440
        projekt_typ == OrStr(<< context.projekt_typ, Some("buerogebaeude") >>)[1]
        circuits == context.stromkreise
        head == GuardLambda(circuits # << >>,
                    CheckFinding(<< "kg440_0001" >>, "mittel",
                                 "Keine Stromkreise dokumentiert", 50, None))
        kreise == Flatten([ i \in 1..Len(circuits) |-> Kg440Circuit(circuits[i]) ])
        zonen == Flatten([ i \in 1..Len(context.beleuchtung) |->
                             Kg440Zone(context.beleuchtung[i], projekt_typ) ])
        notbeleuchtung ==
            GuardLambda(\/ projekt_typ \notin p.emergency_lighting_required
                        \/ context.notbeleuchtung = Some(TRUE),
                CheckFinding(<< "kg440_notbeleuchtung" >>, "hoch",
                             "Notbeleuchtung nicht nachgewiesen", 84, None))
        ups_zonen == { IF context.verbraucher[i].bereich = None THEN "None"
                       ELSE context.verbraucher[i].bereich[1] :
                         i \in { k \in 1..Len(context.verbraucher) :
                                   context.verbraucher[k].usv_erforderlich = Some(TRUE) } }
        usv == Flatten([ i \in 1..Len(reihenfolge) |->
                           GuardLambda(reihenfolge[i] \in ups_zonen,
                               CheckFinding(<< "kg440_usv_", reihenfolge[i] >>, "hoch",
                                            "USV-Versorgung fehlt", 80, None)) ])
    IN  [ exc |-> "none", wert |-> head \o kreise \o zonen \o notbeleuchtung \o usv ]

---------------------------------------------------------------------------
(* checks/kg450_communication.py *)

\* standard.lower().startswith("din 14675") on the norms of the model
IstDin14675(standard) == standard \in { "DIN 14675", "din 14675", "DIN 14675-1" }

\* the body of the loop over the data networks (lines 37-77)
Kg450Network(network, projekt_typ) ==
    LET p == PARAMS.kg450
        rack_fill == CheckToFloat(network.rack_belegung)
        zone == OrStr(<< network.zone, Some("Netz") >>)[1]
    IN  (IF rack_fill # None /\ rack_fill[1] > p.data_rack_fill_max
         THEN << CheckFinding(<< "kg450_", zone, "_rack" >>, "mittel",
                     "Racks zu hoch belegt", 70, None) >>
         ELSE << >>)
        \o
        (IF projekt_typ \in p.cable_shielding_required
         THEN GuardLambda(network.kabelschirmung = Some(TRUE),
                  CheckFinding(<< "kg450_", zone, "_schirmung" >>, "mittel",
                               "Kabelschirmung nicht nachgewiesen", 68, None))
         ELSE << >>)

\* the body of the loop over the security areas (lines 118-175)
Kg450Area(area, projekt_typ) ==
    LET p == PARAMS.kg450
        area_name == OrStr(<< area.name, area.bereich, Some("Bereich") >>)[1]
    IN  (IF projekt_typ \in p.redundant_paths_required
         THEN GuardLambda(area.redundante_anbindung = Some(TRUE),
                  CheckFinding(<< "kg450_", area_name, "_redundanz" >>, "mittel",
                               "Sicherheitsnetz ohne redundante Anbindung", 70, None))
         ELSE << >>)
        \o
        GuardLambda(area.zutrittskontrolle = Some(TRUE),
            CheckFinding(<< "kg450_", area_name, "_zutritt" >>, "hoch",
                         "Zutrittskontrolle nicht geplant", 75, None))
        \o
        (IF area.videoueberwachung = None /\ projekt_typ \in { "krankenhaus", "rechenzentrum" }
         THEN << CheckFinding(<< "kg450_", area_name, "_video" >>, "mittel",
                     "Videomonitoring nicht spezifiziert", 66, None) >>
         ELSE << >>)

\* evaluate of kg450_communication
EvaluateKg450(context) ==
    LET p == PARAMS.kg450
        projekt_typ == OrStr(<< context.projekt_typ, Some("buerogebaeude") >>)[1]
        networks == context.datennetze
        fire_alarm == context.brandmeldeanlage
        security == context.sicherheitsbereiche
        netze == Flatten([ i \in 1..Len(networks) |-> Kg450Network(networks[i], projekt_typ) ])
        standard == OrStr(<< Feld(fire_alarm, "norm"), Some("") >>)[1]
        bma == IF fire_alarm = None THEN << >>
               ELSE GuardLambda(IstDin14675(standard),
                        CheckFinding(<< "kg450_bma_norm" >>, "hoch",
                                     "Brandmeldeanlage nicht normkonform", 82, None))
                    \o
                    GuardLambda(\/ projekt_typ \notin p.redundant_paths_required
                                \/ Feld(fire_alarm, "redundante_wege") = Some(TRUE),
                        CheckFinding(<< "kg450_bma_redundanz" >>, "hoch",
                                     "Brandmeldeanlage ohne redundante Leitungsführung", 80,
                                     None))
        bereiche == Flatten([ i \in 1..Len(security) |-> Kg450Area(security[i], projekt_typ) ])
    IN  IF networks = << >> /\ fire_alarm = None /\ security = << >>
        THEN [ exc |-> "none",
               wert |-> << CheckFinding(<< "kg450_0001" >>, "mittel",
                               "Keine Kommunikationsanlagen dokumentiert", 45, None) >> ]
        ELSE [ exc |-> "none", wert |-> netze \o bma \o bereiche ]

---------------------------------------------------------------------------
(* checks/kg474_fire_suppression.py *)

\* the body of the loop over the sprinkler zones (lines 36-97)
Kg474Zone(zone) ==
    LET p == PARAMS.kg474
        hazard == Lower(OrStr(<< zone.gefaehrdungsklasse, Some("normal") >>)[1])
        density_required == IF DictGet(p.sprinkler_density, hazard) # None
                            THEN DictGet(p.sprinkler_density, hazard)[1]
                            ELSE DictGet(p.sprinkler_density, "normal")[1]
        density == CheckToFloat(zone.berechnete_dichte)
        duration == CheckToFloat(zone.loescheinwirkzeit)
        zone_name == OrStr(<< zone.name, zone.bereich, Some("Sprinklerzone") >>)[1]
    IN  (IF density # None /\ density[1] < density_required
         THEN << CheckFinding(<< "kg474_", zone_name, "_dichte" >>, "hoch",
                     "Sprinkler-Dichte unterschreitet VdS-Anforderung", 83, None) >>
         ELSE << >>)
        \o
        (IF duration # None /\ duration[1] < p.water_supply_duration_min
         THEN << CheckFinding(<< "kg474_", zone_name, "_dauer" >>, "hoch",
                     "Löschwasserbevorratung unzureichend", 80, None) >>
         ELSE << >>)
        \o
        (IF hazard \in p.pump_redundancy_required
         THEN GuardLambda(zone.pumpenredundanz = Some(TRUE),
                  CheckFinding(<< "kg474_", zone_name, "_pumpe" >>, "hoch",
                               "Sprinkleranlage ohne redundante Pumpe", 82, None))
         ELSE << >>)

\* the body of the loop over the hydrants (lines 99-137); pressures in 0.01 MPa
Kg474Hydrant(hydrant) ==
    LET flow == CheckToFloat(hydrant.volumenstrom)
        pressure == CheckToFloat(hydrant.druck)
        hydrant_name == OrStr(<< hydrant.name, hydrant.bereich, Some("Hydrant") >>)[1]
    IN  (IF flow # None /\ flow[1] < 200
         THEN << CheckFinding(<< "kg474_", hydrant_name, "_strom" >>, "mittel",
                     "Hydrantenvolumenstrom zu gering", 75, None) >>
         ELSE << >>)
        \o
        (IF pressure # None /\ pressure[1] < 40
         THEN << CheckFinding(<< "kg474_", hydrant_name, "_druck" >>, "mittel",
                     "Hydranten-Betriebsdruck zu gering", 74, None) >>
         ELSE << >>)

\* evaluate of kg474_fire_suppression
EvaluateKg474(context) ==
    LET p == PARAMS.kg474
        sprinkler == context.sprinkler
        hydrants == context.hydranten
        zonen == Flatten([ i \in 1..Len(sprinkler) |-> Kg474Zone(sprinkler[i]) ])
        hydranten == Flatten([ i \in 1..Len(hydrants) |-> Kg474Hydrant(hydrants[i]) ])
        water_duration == CheckToFloat(Feld(context.wasserversorgung, "dauer"))
        wasserspeicher ==
            GuardLambda(\/ water_duration = None
                        \/ water_duration[1] >= p.water_supply_duration_min,
                CheckFinding(<< "kg474_wasserspeicher" >>, "hoch",
                             "Gesamte Löschwasserbevorratung unzureichend", 81, None))
    IN  IF sprinkler = << >> /\ hydrants = << >>
        THEN [ exc |-> "none",
               wert |-> << CheckFinding(<< "kg474_0001" >>, "mittel",
                               "Keine Feuerlöschanlagen dokumentiert", 50, None) >> ]
        ELSE [ exc |-> "none", wert |-> zonen \o hydranten \o wasserspeicher ]

---------------------------------------------------------------------------
(* checks/kg480_bacs.py *)

\* _class_rank: the index of the upper-cased class in BACS_CLASS_ORDER
\* ["D", "C", "B", "A"], -1 for any other string
ClassRank(bacs_class) ==
    CASE bacs_class \in { "D", "d" } -> 0
      [] bacs_class \in { "C", "c" } -> 1
      [] bacs_class \in { "B", "b" } -> 2
      [] bacs_class \in { "A", "a" } -> 3
      [] OTHER -> -1

\* the body of the loop over the systems (lines 34-54)
Kg480System(system) ==
    LET p == PARAMS.kg480
        gewerk_ref == Lower(OrStr(<< system.gewerk, Some("") >>)[1])
        bacs_class == OrStr(<< system.klasse, Some("D") >>)[1]
        requirement == DictGet(p.bacs_classes, gewerk_ref)
    IN  IF requirement # None /\ ClassRank(bacs_class) > ClassRank(requirement[1])
        THEN << CheckFinding(<< "kg480_", gewerk_ref, "_klasse" >>, "hoch",
                    "Gebäudeautomationsklasse unterschreitet Vorgabe", 78, None) >>
        ELSE << >>

\* the body of the loop over the measuring points (lines 57-79)
Kg480Messstelle(entry) ==
    LET p == PARAMS.kg480
        area == CheckToFloat(entry.flaeche)
        count == CheckToFloat(entry.anzahl)
        category == Lower(OrStr(<< entry.kategorie, Some("hvac") >>)[1])
        requirement == DictGet(p.point_density_min, category)
    IN  IF /\ area # None
           /\ area[1] # 0
           /\ count # None
           /\ requirement # None
           /\ QuotientKleiner(count[1] * 100, area[1], requirement[1], 10)
        THEN << CheckFinding(<< "kg480_", category, "_punkte" >>, "mittel",
                    "Mess- und Stellpunktdichte zu gering", 72, None) >>
        ELSE << >>

\* evaluate of kg480_bacs
EvaluateKg480(context) ==
    LET p == PARAMS.kg480
        trend_storage == CheckToFloat(context.trendaufzeichnung_tage)
        alarm_response == CheckToFloat(context.alarmreaktionszeit)
        systeme == Flatten([ i \in 1..Len(context.systeme) |->
                               Kg480System(context.systeme[i]) ])
        punkte == Flatten([ i \in 1..Len(context.messstellen) |->
                              Kg480Messstelle(context.messstellen[i]) ])
        trend == GuardLambda(\/ trend_storage = None
                             \/ trend_storage[1] >= p.trend_storage_days_min,
                     CheckFinding(<< "kg480_trendaufzeichnung" >>, "mittel",
                                  "Trenddatenspeicherung zu kurz", 70, None))
        alarm == GuardLambda(\/ alarm_response = None
                             \/ alarm_response[1] <= p.alarm_response_time_max,
                     CheckFinding(<< "kg480_alarmzeit" >>, "hoch",
                                  "Alarmweiterleitung zu träge", 82, None))
    IN  [ exc |-> "none", wert |-> systeme \o punkte \o trend \o alarm ]

---------------------------------------------------------------------------
(* checks/__init__.py and the contexts of the evaluators *)

\* evaluate of checks/__init__.py: the evaluator registered for the trade
Evaluate(gewerk, context, reihenfolge) ==
    CASE gewerk = "kg410_sanitaer" -> EvaluateKg410(context)
      [] gewerk = "kg420_heizung" -> EvaluateKg420(context)
      [] gewerk = "kg430_lueftung" -> EvaluateKg430(context)
      [] gewerk = "kg440_elektro" -> EvaluateKg440(context, reihenfolge)
      [] gewerk = "kg450_kommunikation" -> EvaluateKg450(context)
      [] gewerk = "kg474_feuerloeschung" -> EvaluateKg474(context)
      [] gewerk = "kg480_automation" -> EvaluateKg480(context)
      [] OTHER -> [ exc |-> "none", wert |-> << >> ]

\* longest list of entities with repeated or missing names
MaxEntitaeten == 2

\* the sequences of up to MaxEntitaeten elements of a set
Listen(menge) == UNION { [ 1..n -> menge ] : n \in 0..MaxEntitaeten }

\* a sanitary system without any of the keys the evaluator reads
System410 ==
    [ name |-> None, id |-> None, dokument_id |-> None, hot_water_temp |-> None,
      circulation_temp |-> None, velocities |-> None, materials |-> None,
      insulation |-> None ]

Fixture410 ==
    [ id |-> None, bereich |-> None, nutzung |-> None, stagnation_hours |-> None,
      backflow_protection |-> None, dokument_id |-> None ]

Context410 == [ systems |-> << >>, fixtures |-> << >>, projekt_typ |-> None ]

\* kg410 contexts with one system: every combination of the measured values
Kg410Einzel ==
    { [ Context410 EXCEPT !.systems =
          << [ System410 EXCEPT !.name = name, !.hot_water_temp = hot,
                                !.circulation_temp = circ, !.velocities = vel,
                                !.materials = mat, !.insulation = ins ] >> ] :
        name \in { None, Some("TWW") },
        hot \in { None, Some(Zahl(50)), Some(Zahl(60)), Some(Text(50)), Some(Komma(50)),
                  Some(Unlesbar) },
        circ \in { None, Some(Zahl(45)), Some(Zahl(55)), Some(Unlesbar) },
        vel \in { None,
                  Some([ kaltwasser |-> Some(Zahl(25)), warmwasser |-> Some(Text(10)),
                         zirkulation |-> None, abwasser |-> Some(Unlesbar) ]) },
        mat \in { None, Some([ warmwasser |-> Some("Verzinkter Stahl") ]) },
        ins \in { None,
                  Some([ warmwasser |-> Some(Zahl(10)), zirkulation |-> Some(Zahl(20)) ]) } }

\* kg410 contexts with several systems and fixtures, names repeated or missing
Kg410Mehrfach ==
    { [ systems |-> sys, fixtures |-> fix, projekt_typ |-> typ ] :
        sys \in Listen({ [ System410 EXCEPT !.name = Some("TWW"),
                                            !.hot_water_temp = Some(Zahl(50)) ],
                         [ System410 EXCEPT !.name = Some("TWW 2"),
                                            !.hot_water_temp = Some(Unlesbar) ],
                         [ System410 EXCEPT !.hot_water_temp = Some(Zahl(50)) ],
                         [ System410 EXCEPT !.name = Some("TWW 3"),
                                            !.hot_water_temp = Some(Zahl(60)) ] }),
        fix \in { << >>,
                  << [ Fixture410 EXCEPT !.bereich = Some("Labor 1"),
                                         !.stagnation_hours = Some(Zahl(100)) ],
                     [ Fixture410 EXCEPT !.bereich = Some("Labor 2"),
                                         !.stagnation_hours = None ] >> },
        typ \in { None, Some("labor") } }

Room420 == [ name |-> None, heizlast |-> None, spezifische_heizlast |-> None ]

System420 ==
    [ supply_temperature |-> None, return_temperature |-> None, pressure |-> None,
      hydraulic_balancing |-> None, components |-> << >> ]

Generator420 ==
    [ leistung |-> None, typ |-> None, cop |-> None, cop_scop |-> None,
      wirkungsgrad |-> None ]

Context420 ==
    [ projekt_typ |-> None, heating_load |-> None, system |-> None, generator |-> None ]

\* the system and generator of base_context of tests/test_kg420_heating.py
BasisSystem420 ==
    Some([ supply_temperature |-> Some(Zahl(60)), return_temperature |-> Some(Zahl(45)),
           pressure |-> Some(Zahl(20)), hydraulic_balancing |-> Some(TRUE),
           components |-> << "wärmeerzeuger", "umwälzpumpe", "ausdehnungsgefäß",
                             "sicherheitsventil", "manometer" >> ])

BasisGenerator420 ==
    Some([ Generator420 EXCEPT !.leistung = Some(Zahl(50000)), !.typ = Some("gaskessel"),
                               !.wirkungsgrad = Some(Zahl(95)) ])

\* kg420 contexts with no or one room: the specific load against the range
Kg420Raeume ==
    { [ projekt_typ |-> typ,
        heating_load |-> Some([ rooms |-> rooms, total |-> total ]),
        system |-> sys, generator |-> IF sys = None THEN None ELSE BasisGenerator420 ] :
        typ \in { None, Some("buerogebaeude"), Some("wohngebaeude"), Some("sonderbau") },
        rooms \in { << >> } \cup
                  { << [ name |-> name, heizlast |-> Some(Zahl(40000)),
                         spezifische_heizlast |-> spez ] >> :
                      name \in { None, Some("Raum A") },
                      spez \in { None, Some(Zahl(120)), Some(Zahl(100)), Some(Zahl(95)),
                                 Some(Zahl(60)), Some(Zahl(40)), Some(Zahl(30)),
                                 Some(Zahl(20)), Some(Text(120)), Some(Komma(120)),
                                 Some(Unlesbar) } },
        total \in { None, Some(Zahl(40000)) },
        sys \in { None, BasisSystem420 } }

\* kg420 contexts without rooms: the checks of the system
Kg420Systeme ==
    { [ Context420 EXCEPT
          !.heating_load = Some([ rooms |-> << >>, total |-> None ]),
          !.system = Some([ supply_temperature |-> vor, return_temperature |-> rueck,
                            pressure |-> druck, hydraulic_balancing |-> abgleich,
                            components |-> komp ]) ] :
        vor \in { None, Some(Zahl(60)), Some(Zahl(75)), Some(Unlesbar) },
        rueck \in { None, Some(Zahl(45)), Some(Zahl(58)), Some(Zahl(72)) },
        druck \in { None, Some(Zahl(10)), Some(Zahl(20)), Some(Komma(35)) },
        abgleich \in { None, Some(TRUE) },
        komp \in { << >>, << "Wärmeerzeuger", "umwälzpumpe", "ausdehnungsgefäß",
                             "sicherheitsventil", "manometer" >> } }

\* kg420 contexts with one room: the checks of the generator
Kg420Erzeuger ==
    { [ Context420 EXCEPT
          !.heating_load = Some([ rooms |-> << [ Room420 EXCEPT !.heizlast = last ] >>,
                                  total |-> total ]),
          !.system = BasisSystem420,
          !.generator = Some([ leistung |-> leistung, typ |-> typ, cop |-> cop,
                               cop_scop |-> scop, wirkungsgrad |-> eta ]) ] :
        last \in { None, Some(Zahl(40000)), Some(Zahl(40000000)) },
        total \in { None, Some(Zahl(0)), Some(Zahl(45000)) },
        leistung \in { None, Some(Zahl(50000)), Some(Zahl(46000)) },
        typ \in { None, Some("Gaskessel"), Some("waermepumpe") },
        cop \in { None, Some(Zahl(0)), Some(Zahl(30)), Some(Zahl(40)) },
        scop \in { None, Some(Zahl(30)) },
        eta \in { None, Some(Zahl(90)), Some(Zahl(95)) } }

\* kg420 contexts with several rooms, names repeated or missing
Kg420Mehrfach ==
    { [ Context420 EXCEPT
          !.projekt_typ = Some("buerogebaeude"),
          !.heating_load = Some([ rooms |-> rooms, total |-> None ]),
          !.system = BasisSystem420, !.generator = BasisGenerator420 ] :
        rooms \in Listen({ [ Room420 EXCEPT !.name = Some("Raum A"),
                                            !.spezifische_heizlast = Some(Zahl(120)) ],
                           [ Room420 EXCEPT !.name = Some("Raum B"),
                                            !.spezifische_heizlast = Some(Zahl(20)) ],
                           [ Room420 EXCEPT !.spezifische_heizlast = Some(Zahl(120)) ],
                           [ Room420 EXCEPT !.name = Some("Raum A"),
                                            !.spezifische_heizlast = Some(Unlesbar) ] }) }

Room430 ==
    [ name |-> None, zuluft |-> None, abluft |-> None, persons |-> None,
      air_change |-> None, co2 |-> None ]

Anlage430 ==
    [ id |-> None, nummer |-> None, volumenstrom |-> None, waermerueckgewinnung |-> None,
      wrg_wirkungsgrad |-> None, filterklassen |-> << "F7" >> ]

\* kg430 contexts with one room and no unit
Kg430Raeume ==
    { [ projekt_typ |-> typ,
        rooms |-> << [ name |-> Some("Büro 1"), zuluft |-> zu, abluft |-> ab,
                       persons |-> pers, air_change |-> wechsel, co2 |-> co2 ] >>,
        anlagen |-> << >> ] :
        typ \in { None, Some("schule"), Some("sonderbau") },
        zu \in { None, Some(Zahl(0)), Some(Zahl(100)), Some(Zahl(400)) },
        ab \in { None, Some(Zahl(100)), Some(Zahl(380)) },
        pers \in { None, Some(Zahl(0)), Some(Zahl(4)), Some(Unlesbar) },
        wechsel \in { None, Some(Zahl(5)), Some(Zahl(40)), Some(Zahl(80)) },
        co2 \in { None, Some(Zahl(900)), Some(Text(1200)) } }

\* kg430 contexts with rooms and units, names repeated or missing
Kg430Mehrfach ==
    { [ projekt_typ |-> None, rooms |-> rooms, anlagen |-> anlagen ] :
        rooms \in Listen({ [ Room430 EXCEPT !.name = Some("Büro 1"), !.co2 = Some(Zahl(1200)) ],
                           [ Room430 EXCEPT !.co2 = Some(Zahl(1200)) ],
                           [ Room430 EXCEPT !.name = Some("Büro 2"), !.co2 = Some(Zahl(900)) ] }),
        anlagen \in Listen({ [ Anlage430 EXCEPT !.id = Some("RLT1"),
                                                !.volumenstrom = Some(Zahl(2000)) ],
                             [ Anlage430 EXCEPT !.volumenstrom = Some(Zahl(2000)),
                                                !.waermerueckgewinnung = Some(TRUE),
                                                !.wrg_wirkungsgrad = Some(Zahl(70)),
                                                !.filterklassen = << "G4" >> ],
                             [ Anlage430 EXCEPT !.id = Some("RLT2"),
                                                !.waermerueckgewinnung = Some(TRUE),
                                                !.filterklassen = << >> ] }) }

Circuit440 ==
    [ name |-> None, id |-> None, voltage_drop_percent |-> None,
      diversity_factor |-> None, reserve_percent |-> None ]

Zone440 ==
    [ id |-> None, name |-> None, flaeche |-> None, leistung |-> None, nutzung |-> None ]

Context440 ==
    [ projekt_typ |-> None, stromkreise |-> << >>, beleuchtung |-> << >>,
      verbraucher |-> << >>, notbeleuchtung |-> None ]

\* kg440 contexts with one circuit and one lighting zone
Kg440Kreise ==
    { [ Context440 EXCEPT
          !.projekt_typ = Some("industrie"),
          !.stromkreise = << [ Circuit440 EXCEPT !.name = Some("UV1"),
                                 !.voltage_drop_percent = drop,
                                 !.diversity_factor = div, !.reserve_percent = res ] >>,
          !.beleuchtung = << [ Zone440 EXCEPT !.flaeche = flaeche,
                                              !.leistung = leistung ] >>,
          !.verbraucher = << [ bereich |-> Some("rechenzentrum"),
                               usv_erforderlich |-> Some(TRUE) ],
                             [ bereich |-> Some("operationssaal"),
                               usv_erforderlich |-> Some(TRUE) ] >> ] :
        drop \in { None, Some(Zahl(25)), Some(Zahl(45)), Some(Unlesbar) },
        div \in { None, Some(Zahl(50)), Some(Zahl(75)), Some(Zahl(95)) },
        res \in { None, Some(Zahl(5)), Some(Zahl(15)) },
        flaeche \in { None, Some(Zahl(0)), Some(Zahl(100)) },
        leistung \in { None, Some(Zahl(1500)), Some(Zahl(2500)) } }

\* kg440 contexts with several circuits and consumers
Kg440Mehrfach ==
    { [ projekt_typ |-> typ, stromkreise |-> kreise, beleuchtung |-> << >>,
        verbraucher |-> verbraucher, notbeleuchtung |-> notb ] :
        typ \in { None, Some("industrie") },
        kreise \in Listen({ [ Circuit440 EXCEPT !.name = Some("UV1"),
                                                !.reserve_percent = Some(Zahl(5)) ],
                            [ Circuit440 EXCEPT !.reserve_percent = Some(Zahl(5)) ],
                            [ Circuit440 EXCEPT !.id = Some("UV2") ] }),
        verbraucher \in { << >>,
                          << [ bereich |-> Some("rechenzentrum"),
                               usv_erforderlich |-> Some(TRUE) ] >>,
                          << [ bereich |-> Some("operationssaal"),
                               usv_erforderlich |-> None ] >> },
        notb \in { None, Some(TRUE) } }

Netze450 ==
    { [ zone |-> Some("EG"), rack_belegung |-> Some(Zahl(90)), kabelschirmung |-> None ],
      [ zone |-> None, rack_belegung |-> None, kabelschirmung |-> Some(TRUE) ],
      [ zone |-> None, rack_belegung |-> Some(Komma(85)), kabelschirmung |-> None ] }

Bereiche450 ==
    { [ name |-> Some("Serverraum"), bereich |-> None, redundante_anbindung |-> None,
        zutrittskontrolle |-> None, videoueberwachung |-> None ],
      [ name |-> None, bereich |-> None, redundante_anbindung |-> Some(TRUE),
        zutrittskontrolle |-> Some(TRUE), videoueberwachung |-> Some(TRUE) ] }

\* kg450 contexts: networks or security areas, with and without a fire alarm
\* system
Kg450Kontexte ==
    { [ projekt_typ |-> typ, datennetze |-> listen[1], brandmeldeanlage |-> bma,
        sicherheitsbereiche |-> listen[2] ] :
        typ \in { None, Some("krankenhaus"), Some("labor") },
        listen \in { << netze, << >> >> : netze \in Listen(Netze450) }
                     \cup { << << >>, bereiche >> : bereiche \in Listen(Bereiche450) }
                     \cup { << netze, bereiche >> :
                              netze \in [ 1..1 -> Netze450 ],
                              bereiche \in [ 1..1 -> Bereiche450 ] },
        bma \in { None, Some([ norm |-> Some("DIN 14675"), redundante_wege |-> None ]),
                  Some([ norm |-> None, redundante_wege |-> Some(TRUE) ]) } }

\* kg474 contexts
Kg474Kontexte ==
    { [ sprinkler |-> zonen, hydranten |-> hydranten, wasserversorgung |-> wasser ] :
        zonen \in { << >> } \cup
                  { << [ name |-> Some("Lager"), bereich |-> None,
                         gefaehrdungsklasse |-> klasse, berechnete_dichte |-> dichte,
                         loescheinwirkzeit |-> dauer, pumpenredundanz |-> None ] >> :
                      klasse \in { None, Some("Hoch") },
                      dichte \in { None, Some(Zahl(20)), Some(Zahl(30)), Some(Zahl(60)) },
                      dauer \in { None, Some(Zahl(20)), Some(Zahl(45)) } },
        hydranten \in Listen({ [ name |-> Some("WH1"), bereich |-> None,
                                 volumenstrom |-> Some(Zahl(150)), druck |-> Some(Zahl(30)) ],
                               [ name |-> None, bereich |-> None,
                                 volumenstrom |-> None, druck |-> Some(Zahl(30)) ],
                               [ name |-> None, bereich |-> None,
                                 volumenstrom |-> Some(Zahl(250)), druck |-> None ] }),
        wasser \in { None, Some([ dauer |-> None ]), Some([ dauer |-> Some(Zahl(20)) ]),
                     Some([ dauer |-> Some(Zahl(60)) ]) } }

Systeme480 ==
    { [ gewerk |-> Some("KG420"), klasse |-> Some("C") ],
      [ gewerk |-> Some("kg440"), klasse |-> Some("A") ],
      [ gewerk |-> Some("kg440"), klasse |-> None ],
      [ gewerk |-> None, klasse |-> Some("B") ] }

Messstellen480 ==
    { [ kategorie |-> Some("HVAC"), flaeche |-> Some(Zahl(1000)), anzahl |-> Some(Zahl(10)) ],
      [ kategorie |-> None, flaeche |-> Some(Zahl(500)), anzahl |-> Some(Zahl(5)) ],
      [ kategorie |-> Some("metering"), flaeche |-> Some(Zahl(0)), anzahl |-> Some(Zahl(1)) ],
      [ kategorie |-> Some("lighting"), flaeche |-> Some(Zahl(100)), anzahl |-> None ],
      [ kategorie |-> Some("lighting"), flaeche |-> Some(Zahl(100)), anzahl |-> Some(Zahl(2)) ] }

\* kg480 contexts: systems or measuring points
Kg480Kontexte ==
    { [ systeme |-> listen[1], messstellen |-> listen[2], trendaufzeichnung_tage |-> trend,
        alarmreaktionszeit |-> alarm ] :
        listen \in { << systeme, << >> >> : systeme \in Listen(Systeme480) }
                     \cup { << << >>, punkte >> : punkte \in Listen(Messstellen480) },
        trend \in { None, Some(Zahl(14)), Some(Zahl(60)) },
        alarm \in { None, Some(Zahl(120)), Some(Zahl(600)) } }

---------------------------------------------------------------------------
(* specification of the rule evaluators run through the Check Engine, twice
   on the same context *)

EvaluateEingaben ==
    [ gewerk : { "kg410_sanitaer" }, context : Kg410Einzel \cup Kg410Mehrfach ]
      \cup [ gewerk : { "kg420_heizung" },
             context : Kg420Raeume \cup Kg420Systeme \cup Kg420Erzeuger \cup Kg420Mehrfach ]
      \cup [ gewerk : { "kg430_lueftung" }, context : Kg430Raeume \cup Kg430Mehrfach ]
      \cup [ gewerk : { "kg440_elektro" }, context : Kg440Kreise \cup Kg440Mehrfach ]
      \cup [ gewerk : { "kg450_kommunikation" }, context : Kg450Kontexte ]
      \cup [ gewerk : { "kg474_feuerloeschung" }, context : Kg474Kontexte ]
      \cup [ gewerk : { "kg480_automation" }, context : Kg480Kontexte ]

\* the orders in which a process may iterate over the set ups_required_for
Reihenfolgen ==
    { r \in [ 1..Cardinality(PARAMS.kg440.ups_required_for)
                -> PARAMS.kg440.ups_required_for ] :
        \A i, k \in DOMAIN r : i # k => r[i] # r[k] }

\* one run: what evaluate does and what CheckEngine.run returns for it
Lauf(reihenfolge) ==
    LET r == Evaluate(eingabe.gewerk, eingabe.context, reihenfolge)
    IN  [ evaluate |-> r,
          engine |-> CheckEngineRun([ raises |-> r.exc # "none", findings |-> r.wert ]).wert ]

InitEvaluate ==
    /\ InitLaufAus
    /\ eingabe \in EvaluateEingaben
    /\ ausgabe = << >>
    /\ lokale = << >>
    /\ schritt = "bereit"

\* the context is evaluated through the Check Engine
ErsterLauf ==
    /\ schritt = "bereit"
    /\ \E reihenfolge \in Reihenfolgen : ausgabe' = << Lauf(reihenfolge) >>
    /\ schritt' = "einmal"
    /\ UNCHANGED << eingabe, lokale >>
    /\ UNCHANGED runVars

\* the same context is evaluated again, in another process
ZweiterLauf ==
    /\ schritt = "einmal"
    /\ \E reihenfolge \in Reihenfolgen : ausgabe' = Append(ausgabe, Lauf(reihenfolge))
    /\ schritt' = "fertig"
    /\ UNCHANGED << eingabe, lokale >>
    /\ UNCHANGED runVars

NextEvaluate == ErsterLauf \/ ZweiterLauf

SpecEvaluate == InitEvaluate /\ [][NextEvaluate]_vars

---------------------------------------------------------------------------
(* claims about the rule evaluators *)

\* C12: for identical input, every evaluator returns the same finding ids in
\* the same order on every repeated run, also where it iterates over a
\* set-valued catalog parameter
C12_WiederholungGleich ==
    schritt = "fertig" =>
        /\ ausgabe[1].evaluate.exc = ausgabe[2].evaluate.exc
        /\ Ids(ausgabe[1].evaluate.wert) = Ids(ausgabe[2].evaluate.wert)

\* two runs on one kg440 context return the two UPS findings in different
\* orders
C12_Witness ==
    /\ schritt = "fertig"
    /\ eingabe.gewerk = "kg440_elektro"
    /\ Len(ausgabe[1].evaluate.wert) = Len(ausgabe[2].evaluate.wert)
    /\ Ids(ausgabe[1].evaluate.wert) # Ids(ausgabe[2].evaluate.wert)

\* no two elements of a list of findings have the same id
IdsEindeutig(befunde) ==
    \A i, k \in 1..Len(befunde) : i # k => befunde[i].id # befunde[k].id

\* C13: in the list returned by one evaluator no two findings have the same
\* id, for every input, including several entities with the same or missing
\* name and several measuring-point entries of one category
C13_IdsEindeutigImLauf ==
    schritt # "bereit" => IdsEindeutig(ausgabe[1].evaluate.wert)

\* two measuring-point entries of one category give the same id twice
C13_Witness ==
    /\ schritt # "bereit"
    /\ eingabe.gewerk = "kg480_automation"
    /\ Len(eingabe.context.messstellen) = 2
    /\ eingabe.context.messstellen[1].kategorie = eingabe.context.messstellen[2].kategorie
    /\ ausgabe[1].evaluate.exc = "none"
    /\ ~IdsEindeutig(ausgabe[1].evaluate.wert)

\* the ids of a list of findings as a set
IdMenge(befunde) == { befunde[i].id : i \in 1..Len(befunde) }

\* one numeric threshold check on one entity: the place of the entity, the
\* measured value the check reads and the id of the finding of the check
Pruefung(stelle, wert, id) == [ stelle |-> stelle, wert |-> wert, id |-> id ]

\* the checks of several fields on the entities of a list; felder holds
\* (field, suffix of the id) and label gives the label of the i-th entity
ListenPruefungen(liste, art, felder, praefix, label) ==
    { Pruefung(<< art, i >>, liste[i][f[1]], << praefix, label[i], f[2] >>) :
        i \in 1..Len(liste), f \in felder }

Label410(context) == [ i \in 1..Len(context.systems) |-> SystemLabel(context.systems[i]) ]

Pruefungen410(context) ==
    ListenPruefungen(context.systems, "system",
                     { << "hot_water_temp", "_temp" >>, << "circulation_temp", "_zirkulation" >> },
                     "kg410_", Label410(context))
    \cup { Pruefung(<< "system", i >>, Feld(context.systems[i][f[1]], medium),
                    << "kg410_", Label410(context)[i], f[2], medium >>) :
             i \in 1..Len(context.systems),
             f \in { << "insulation", "_insulation_" >> },
             medium \in { "warmwasser", "zirkulation" } }
    \cup { Pruefung(<< "system", i >>, Feld(context.systems[i].velocities, medium),
                    << "kg410_", Label410(context)[i], "_velocity_", medium >>) :
             i \in 1..Len(context.systems),
             medium \in { "kaltwasser", "warmwasser", "zirkulation", "abwasser" } }
    \cup ListenPruefungen(context.fixtures, "fixture",
                          { << "stagnation_hours", "_stagnation" >> }, "kg410_fixture_",
                          [ i \in 1..Len(context.fixtures) |->
                              IF context.fixtures[i].id = None THEN "unbekannt"
                              ELSE context.fixtures[i].id[1] ])

Pruefungen420(context) ==
    LET rooms == IF context.heating_load = None THEN << >> ELSE context.heating_load[1].rooms
        cop == IF Feld(context.generator, "cop") = None
               THEN Feld(context.generator, "cop_scop")
               ELSE Feld(context.generator, "cop")
    IN  ListenPruefungen(rooms, "room",
                         { << "spezifische_heizlast", "_hoch" >>,
                           << "spezifische_heizlast", "_niedrig" >> },
                         "kg420_room_",
                         [ i \in 1..Len(rooms) |->
                             IF rooms[i].name = None THEN "unbekannt" ELSE rooms[i].name[1] ])
        \cup { Pruefung(<< "system", 1 >>, Feld(context.system, f[1]), << f[2] >>) :
                 f \in { << "supply_temperature", "kg420_vorlauf_001" >>,
                         << "return_temperature", "kg420_ruecklauf_001" >>,
                         << "supply_temperature", "kg420_deltaT_001" >>,
                         << "return_temperature", "kg420_deltaT_001" >>,
                         << "pressure", "kg420_druck_min" >>,
                         << "pressure", "kg420_druck_max" >> } }
        \cup { Pruefung(<< "generator", 1 >>, Feld(context.generator, "leistung"),
                        << "kg420_erzeuger_001" >>),
               Pruefung(<< "generator", 1 >>, cop, << "kg420_wp_001" >>),
               Pruefung(<< "generator", 1 >>, Feld(context.generator, "wirkungsgrad"),
                        << "kg420_kessel_001" >>) }

Pruefungen430(context) ==
    ListenPruefungen(context.rooms, "room",
                     { << "zuluft", "_luftmenge" >>, << "persons", "_luftmenge" >>,
                       << "air_change", "_wechsel_min" >>, << "air_change", "_wechsel_max" >>,
                       << "co2", "_co2" >> },
                     "kg430_",
                     [ i \in 1..Len(context.rooms) |->
                         IF context.rooms[i].name = None THEN "unbekannt"
                         ELSE context.rooms[i].name[1] ])
    \cup ListenPruefungen(context.anlagen, "anlage",
                          { << "volumenstrom", "_wrg" >>, << "wrg_wirkungsgrad", "_eta" >> },
                          "kg430_",
                          [ i \in 1..Len(context.anlagen) |->
                              OrStr(<< context.anlagen[i].id, context.anlagen[i].nummer,
                                       Some("anlage") >>)[1] ])

Pruefungen440(context) ==
    ListenPruefungen(context.stromkreise, "stromkreis",
                     { << "voltage_drop_percent", "_spannung" >>,
                       << "diversity_factor", "_diversity" >>,
                       << "reserve_percent", "_reserve" >> },
                     "kg440_",
                     [ i \in 1..Len(context.stromkreise) |->
                         OrStr(<< context.stromkreise[i].name, context.stromkreise[i].id,
                                  Some("Stromkreis") >>)[1] ])
    \cup { Pruefung(<< "zone", i >>, context.beleuchtung[i][f],
                    << "kg440_beleuchtung_",
                       IF context.beleuchtung[i].id = None THEN "zone"
                       ELSE context.beleuchtung[i].id[1] >>) :
             i \in 1..Len(context.beleuchtung), f \in { "flaeche", "leistung" } }

Pruefungen450(context) ==
    ListenPruefungen(context.datennetze, "netz", { << "rack_belegung", "_rack" >> }, "kg450_",
                     [ i \in 1..Len(context.datennetze) |->
                         OrStr(<< context.datennetze[i].zone, Some("Netz") >>)[1] ])

Pruefungen474(context) ==
    ListenPruefungen(context.sprinkler, "zone",
                     { << "berechnete_dichte", "_dichte" >>, << "loescheinwirkzeit", "_dauer" >> },
                     "kg474_",
                     [ i \in 1..Len(context.sprinkler) |->
                         OrStr(<< context.sprinkler[i].name, context.sprinkler[i].bereich,
                                  Some("Sprinklerzone") >>)[1] ])
    \cup ListenPruefungen(context.hydranten, "hydrant",
                          { << "volumenstrom", "_strom" >>, << "druck", "_druck" >> }, "kg474_",
                          [ i \in 1..Len(context.hydranten) |->
                              OrStr(<< context.hydranten[i].name, context.hydranten[i].bereich,
                                       Some("Hydrant") >>)[1] ])
    \cup { Pruefung(<< "wasserversorgung", 1 >>, Feld(context.wasserversorgung, "dauer"),
                    << "kg474_wasserspeicher" >>) }

Pruefungen480(context) ==
    { Pruefung(<< "messstelle", i >>, context.messstellen[i][f],
               << "kg480_", Lower(OrStr(<< context.messstellen[i].kategorie, Some("hvac") >>)[1]),
                  "_punkte" >>) :
        i \in 1..Len(context.messstellen), f \in { "flaeche", "anzahl" } }
    \cup { Pruefung(<< "context", 1 >>, context.trendaufzeichnung_tage,
                    << "kg480_trendaufzeichnung" >>),
           Pruefung(<< "context", 1 >>, context.alarmreaktionszeit, << "kg480_alarmzeit" >>) }

\* the numeric threshold checks of the evaluator of a trade on a context
Pruefungen(gewerk, context) ==
    CASE gewerk = "kg410_sanitaer" -> Pruefungen410(context)
      [] gewerk = "kg420_heizung" -> Pruefungen420(context)
      [] gewerk = "kg430_lueftung" -> Pruefungen430(context)
      [] gewerk = "kg440_elektro" -> Pruefungen440(context)
      [] gewerk = "kg450_kommunikation" -> Pruefungen450(context)
      [] gewerk = "kg474_feuerloeschung" -> Pruefungen474(context)
      [] gewerk = "kg480_automation" -> Pruefungen480(context)

\* the measured value of the check with this id is None or absent in every
\* entity whose check has this id
MesswertUnbekannt(pruefungen, id) ==
    \A d \in pruefungen :
        d.id = id => \E e \in pruefungen : e.id = id /\ e.stelle = d.stelle /\ e.wert = None

\* C15: for every numeric threshold check of every one of the seven
\* evaluators, when the measured value is None or absent the finding id of
\* that check is never produced
C15_UnbekanntIstKeinVerstoss ==
    schritt # "bereit" =>
        LET pruefungen == Pruefungen(eingabe.gewerk, eingabe.context)
        IN  \A c \in pruefungen :
                MesswertUnbekannt(pruefungen, c.id) =>
                    c.id \notin IdMenge(ausgabe[1].evaluate.wert)

\* a system without hot_water_temp was evaluated: the missing value is
\* reported and the threshold finding is not
C15_Witness ==
    /\ schritt # "bereit"
    /\ eingabe.gewerk = "kg410_sanitaer"
    /\ Len(eingabe.context.systems) = 1
    /\ eingabe.context.systems[1].hot_water_temp = None
    /\ ausgabe[1].evaluate.exc = "none"
    /\ << "kg410_", SystemLabel(eingabe.context.systems[1]), "_temp_missing" >>
         \in IdMenge(ausgabe[1].evaluate.wert)
    /\ << "kg410_", SystemLabel(eingabe.context.systems[1]), "_temp" >>
         \notin IdMenge(ausgabe[1].evaluate.wert)

\* C16: a non-numeric value in one entity's field only skips the affected
\* check: evaluate does not raise, and the Check Engine still returns the
\* findings of the other entities of the trade
C16_NichtNumerischUeberspringt ==
    schritt # "bereit" =>
        /\ ausgabe[1].evaluate.exc = "none"
        /\ ausgabe[1].engine = ausgabe[1].evaluate.wert

\* a system with a readable temperature below the limit next to one with an
\* unreadable temperature: evaluate raises and the Check Engine returns
\* nothing
C16_Witness ==
    /\ schritt # "bereit"
    /\ eingabe.gewerk = "kg410_sanitaer"
    /\ Len(eingabe.context.systems) = 2
    /\ eingabe.context.systems[1].hot_water_temp = Some(Zahl(50))
    /\ eingabe.context.systems[2].hot_water_temp = Some(Unlesbar)
    /\ ausgabe[1].evaluate.exc = "ValueError"
    /\ ausgabe[1].engine = << >>

\* the context of a trade holds no entity at all: every entity list its
\* evaluator reads is empty
OhneEntitaeten(gewerk, context) ==
    CASE gewerk = "kg410_sanitaer" -> context.systems = << >>
      [] gewerk = "kg420_heizung" ->
            context.heating_load = None \/ context.heating_load[1].rooms = << >>
      [] gewerk = "kg430_lueftung" -> context.rooms = << >>
      [] gewerk = "kg440_elektro" -> context.stromkreise = << >>
      [] gewerk = "kg450_kommunikation" ->
            /\ context.datennetze = << >>
            /\ context.brandmeldeanlage = None
            /\ context.sicherheitsbereiche = << >>
      [] gewerk = "kg474_feuerloeschung" ->
            context.sprinkler = << >> /\ context.hydranten = << >>
      [] gewerk = "kg480_automation" ->
            context.systeme = << >> /\ context.messstellen = << >>

\* the id <trade>_0001 of the 'no data found' finding of a trade
KeineDatenId(gewerk) ==
    CASE gewerk = "kg410_sanitaer" -> << "kg410_0001" >>
      [] gewerk = "kg420_heizung" -> << "kg420_0001" >>
      [] gewerk = "kg430_lueftung" -> << "kg430_0001" >>
      [] gewerk = "kg440_elektro" -> << "kg440_0001" >>
      [] gewerk = "kg450_kommunikation" -> << "kg450_0001" >>
      [] gewerk = "kg474_feuerloeschung" -> << "kg474_0001" >>
      [] gewerk = "kg480_automation" -> << "kg480_0001" >>

\* C18: for each of the seven trade evaluators, a context whose primary
\* entity list is entirely empty yields the finding <trade>_0001
C18_LeereListeGibt0001 ==
    schritt # "bereit" /\ OhneEntitaeten(eingabe.gewerk, eingabe.context) =>
        KeineDatenId(eingabe.gewerk) \in IdMenge(ausgabe[1].evaluate.wert)

\* the building automation evaluator ran on a context without systems and
\* measuring points and returned no finding
C18_Witness ==
    /\ schritt # "bereit"
    /\ eingabe.gewerk = "kg480_automation"
    /\ OhneEntitaeten(eingabe.gewerk, eingabe.context)
    /\ ausgabe[1].evaluate = [ exc |-> "none", wert |-> << >> ]

\* the six other evaluators do yield their <trade>_0001 finding
C18_AndereGewerke ==
    /\ schritt # "bereit"
    /\ OhneEntitaeten(eingabe.gewerk, eingabe.context)
    /\ eingabe.gewerk # "kg480_automation"
    => KeineDatenId(eingabe.gewerk) \in IdMenge(ausgabe[1].evaluate.wert)

\* the heating context has zero rooms
OhneRaeume(context) == context.heating_load = None \/ context.heating_load[1].rooms = << >>

\* the ids of the checks of the system and of the generator of kg420
AnlagenIds420 ==
    { << "kg420_vorlauf_001" >>, << "kg420_ruecklauf_001" >>, << "kg420_deltaT_001" >>,
      << "kg420_druck_min" >>, << "kg420_druck_max" >>, << "kg420_hydraulik_001" >>,
      << "kg420_komponenten_001" >>, << "kg420_erzeuger_001" >>, << "kg420_wp_001" >>,
      << "kg420_kessel_001" >> }

\* C19 as stated: for a heating context with zero rooms the kg420 evaluator
\* returns exactly one finding, the one with id kg420_0001 and priority 'hoch'
C19_GenauEinBefund ==
    /\ schritt # "bereit"
    /\ eingabe.gewerk = "kg420_heizung"
    /\ OhneRaeume(eingabe.context)
    => /\ Len(ausgabe[1].evaluate.wert) = 1
       /\ ausgabe[1].evaluate.wert[1].id = << "kg420_0001" >>
       /\ ausgabe[1].evaluate.wert[1].prioritaet = "hoch"

\* C19 amended: for a heating context with zero rooms the kg420 evaluator
\* returns the finding kg420_0001 with priority 'hoch' first and once; every
\* further finding comes from the checks of the system and the generator,
\* and there is none when system and generator are those of the compliant
\* base context
C19_Amended ==
    /\ schritt # "bereit"
    /\ eingabe.gewerk = "kg420_heizung"
    /\ OhneRaeume(eingabe.context)
    => LET wert == ausgabe[1].evaluate.wert
       IN  /\ ausgabe[1].evaluate.exc = "none"
           /\ Len(wert) >= 1
           /\ wert[1].id = << "kg420_0001" >>
           /\ wert[1].prioritaet = "hoch"
           /\ \A i \in 2..Len(wert) : wert[i].id \in AnlagenIds420
           /\ ( /\ eingabe.context.system = BasisSystem420
                /\ eingabe.context.generator = BasisGenerator420
                => Len(wert) = 1 )

\* the evaluator ran on the compliant base context without rooms and
\* returned the single finding kg420_0001
C19_Witness ==
    /\ schritt # "bereit"
    /\ eingabe.gewerk = "kg420_heizung"
    /\ OhneRaeume(eingabe.context)
    /\ eingabe.context.system = BasisSystem420
    /\ eingabe.context.generator = BasisGenerator420
    /\ Ids(ausgabe[1].evaluate.wert) = << << "kg420_0001" >> >>

\* the range of the specific heat load of the project type of a context; a
\* missing or unlisted type reads as an office building
Richtwerte420(context) ==
    LET typ == IF context.projekt_typ = None THEN "buerogebaeude" ELSE context.projekt_typ[1]
    IN  IF DictGet(PARAMS.kg420.specific_load, typ) # None
        THEN DictGet(PARAMS.kg420.specific_load, typ)[1]
        ELSE DictGet(PARAMS.kg420.specific_load, "buerogebaeude")[1]

Raeume420(context) ==
    IF context.heating_load = None THEN << >> ELSE context.heating_load[1].rooms

\* the specific load of a room is known: a number or a numeric string
LastBekannt(room) ==
    /\ room.spezifische_heizlast # None
    /\ room.spezifische_heizlast[1].art \in { "zahl", "text" }

RaumName(room) == IF room.name = None THEN "unbekannt" ELSE room.name[1]

\* how often an id occurs in a list of findings
Haeufigkeit(befunde, id) == Cardinality({ i \in 1..Len(befunde) : befunde[i].id = id })

\* C20: for every room with a known specific load, a value above the max of
\* the project type yields exactly the finding kg420_room_<name>_hoch and
\* never _niedrig, a value below min yields exactly _niedrig and never
\* _hoch, and a value within [min, max] yields neither; with several rooms
\* of one name, each id occurs once per room that violates in its direction
C20_RichtungUnterscheidbar ==
    schritt # "bereit" /\ eingabe.gewerk = "kg420_heizung" =>
        LET rooms == Raeume420(eingabe.context)
            bereich == Richtwerte420(eingabe.context)
            wert == ausgabe[1].evaluate.wert
        IN  \A i \in 1..Len(rooms) :
                /\ Haeufigkeit(wert, << "kg420_room_", RaumName(rooms[i]), "_hoch" >>)
                     = Cardinality({ k \in 1..Len(rooms) :
                                       /\ RaumName(rooms[k]) = RaumName(rooms[i])
                                       /\ LastBekannt(rooms[k])
                                       /\ rooms[k].spezifische_heizlast[1].wert > bereich.max })
                /\ Haeufigkeit(wert, << "kg420_room_", RaumName(rooms[i]), "_niedrig" >>)
                     = Cardinality({ k \in 1..Len(rooms) :
                                       /\ RaumName(rooms[k]) = RaumName(rooms[i])
                                       /\ LastBekannt(rooms[k])
                                       /\ rooms[k].spezifische_heizlast[1].wert < bereich.min })

\* a room with 120 W/m2 in an office building was evaluated: one 'too high'
\* and no 'too low'
C20_Witness ==
    /\ schritt # "bereit"
    /\ eingabe.gewerk = "kg420_heizung"
    /\ eingabe.context.projekt_typ = Some("buerogebaeude")
    /\ Len(Raeume420(eingabe.context)) = 1
    /\ Raeume420(eingabe.context)[1].name = Some("Raum A")
    /\ Raeume420(eingabe.context)[1].spezifische_heizlast = Some(Zahl(120))
    /\ Haeufigkeit(ausgabe[1].evaluate.wert, << "kg420_room_", "Raum A", "_hoch" >>) = 1
    /\ Haeufigkeit(ausgabe[1].evaluate.wert, << "kg420_room_", "Raum A", "_niedrig" >>) = 0

\* a room with 20 W/m2 in an office building was evaluated: one 'too low'
\* and no 'too high'
C20_WitnessNiedrig ==
    /\ schritt # "bereit"
    /\ eingabe.gewerk = "kg420_heizung"
    /\ Len(Raeume420(eingabe.context)) = 1
    /\ Raeume420(eingabe.context)[1].spezifische_heizlast = Some(Zahl(20))
    /\ Haeufigkeit(ausgabe[1].evaluate.wert, << "kg420_room_", RaumName(Raeume420(eingabe.context)[1]), "_niedrig" >>) = 1
    /\ Haeufigkeit(ausgabe[1].evaluate.wert, << "kg420_room_", RaumName(Raeume420(eingabe.context)[1]), "_hoch" >>) = 0

---------------------------------------------------------------------------
(* the coordination checks on raw metadata: entries that are not mappings
   and entries carrying data that is not a mapping *)

\* a value that is not a mapping where the code expects one: a string, a
\* number, a list
KeinMapping == [ art |-> "kein_mapping" ]

\* isinstance(value, Mapping)
IstMapping(value) == "art" \notin DOMAIN value

\* the mapping entries of a list, in order
NurMappings(liste) == SelectSeq(liste, IstMapping)

\* the elements of a document
ElementeVon(dokument) ==
    IF dokument.metadaten.geometrie = None THEN << >>
    ELSE dokument.metadaten.geometrie[1].elemente

\* the document with another list of elements
MitElementen(dokument, elemente) ==
    IF dokument.metadaten.geometrie = None THEN dokument
    ELSE [ dokument EXCEPT !.metadaten.geometrie = Some([ @[1] EXCEPT !.elemente = elemente ]) ]

\* the first loop of _pruefe_kollisionen on raw elements (lines 1181-1205):
\* element.get raises AttributeError for an element that is not a mapping; a
\* bbox that is not a mapping skips the element (line 1186)
RohKollisionen(docs) ==
    IF \E d \in 1..Len(docs) : \E i \in 1..Len(ElementeVon(docs[d])) :
           ~ IstMapping(ElementeVon(docs[d])[i])
    THEN [ exc |-> "AttributeError", wert |-> << >> ]
    ELSE [ exc |-> "none",
           wert |-> PruefeKollisionen(
                      [ d \in 1..Len(docs) |->
                          MitElementen(docs[d],
                              SelectSeq(ElementeVon(docs[d]),
                                        LAMBDA e : IstMapping(BboxRaw(e)))) ]) ]

\* the document with only the mapping entries of its interface lists
SchnittstellenMappings(dokument) ==
    IF dokument.metadaten.schnittstellen = None THEN dokument
    ELSE [ dokument EXCEPT !.metadaten.schnittstellen =
             Some([ versorgungen |-> NurMappings(@[1].versorgungen),
                    elektro |-> NurMappings(@[1].elektro) ]) ]

\* _pruefe_schnittstellen on raw entries (lines 1306-1362): an entry that is
\* not a mapping is skipped (lines 1311 and 1339)
RohSchnittstellen(docs) ==
    [ exc |-> "none",
      wert |-> PruefeSchnittstellen([ d \in 1..Len(docs) |-> SchnittstellenMappings(docs[d]) ]) ]

\* the document with only the mapping entries of its penetration lists
SudMappings(dokument) ==
    IF dokument.metadaten.sud = None THEN dokument
    ELSE [ dokument EXCEPT !.metadaten.sud =
             Some([ @[1] EXCEPT !.anforderungen = NurMappings(@),
                                !.bestaetigt = NurMappings(@) ]) ]

\* _parse_dimensions or _parse_position is handed something that is not a
\* mapping: entry.get("dimensionen") or entry.get("lage") is one
ParseRaises(entry) ==
    \/ entry.dimensionen # None /\ ~ IstMapping(entry.dimensionen[1])
    \/ entry.lage # None /\ ~ IstMapping(entry.lage[1])

\* _pruefe_sud_planung on raw entries (lines 1489-1535): an entry that is not
\* a mapping is skipped, an entry without an id is skipped, and data.get
\* raises AttributeError for dimension or position data that is not a mapping
RohSudPlanung(docs) ==
    LET bereinigt == [ d \in 1..Len(docs) |-> SudMappings(docs[d]) ]
        Liste(d, feld) == IF bereinigt[d].metadaten.sud = None THEN << >>
                          ELSE bereinigt[d].metadaten.sud[1][feld]
        AnfIdent(e) == Strip(OrStr(<< e.id, e.referenz, Some("") >>)[1])
        BestIdent(e) == Strip(OrStr(<< e.referenz, e.id, e.zuordnung, Some("") >>)[1])
    IN  IF \E d \in 1..Len(docs) :
              \/ \E i \in 1..Len(Liste(d, "anforderungen")) :
                    /\ AnfIdent(Liste(d, "anforderungen")[i]) # ""
                    /\ ParseRaises(Liste(d, "anforderungen")[i])
              \/ \E i \in 1..Len(Liste(d, "bestaetigt")) :
                    /\ BestIdent(Liste(d, "bestaetigt")[i]) # ""
                    /\ ParseRaises(Liste(d, "bestaetigt")[i])
        THEN [ exc |-> "AttributeError", wert |-> << >> ]
        ELSE [ exc |-> "none", wert |-> PruefeSudPlanung(bereinigt) ]

---------------------------------------------------------------------------
(* specification of the three coordination checks applied to raw metadata *)

\* elements of the heating document: well-formed (overlapping the element of
\* the electrical document), with unreadable numbers, with a bbox that is
\* not a mapping, and not a mapping at all
RohElemente ==
    { Element(Some("a"), Box(0, 2, 0, 2), None),
      Element(Some("u"), Some(MinMaxX(0, 2) @@ [ y_min |-> Some(Unlesbar),
                                                   y_max |-> Some(Zahl(2)) ]), None),
      Element(Some("s"), Some(KeinMapping), None),
      KeinMapping }

RohKollisionsEingaben ==
    { << Dokument("d1", "heizung.pdf", "kg420_heizung", "plan",
                  [ MetaLeer EXCEPT !.geometrie = Geometrie(elemente) ], None),
         Dokument("d2", "elektro.pdf", "kg440_elektro", "plan",
                  [ MetaLeer EXCEPT !.geometrie = Geometrie(weitere) ], None) >> :
        elemente \in Listen(RohElemente),
        weitere \in { << Element(Some("b"), Box(1, 3, 1, 3), None) >>,
                      << Element(Some("b"), Box(1, 3, 1, 3), None), KeinMapping >> } }

RohSchnittstellenEingaben ==
    { << Dokument("d1", "elektro.pdf", "kg440_elektro", "schema",
                  [ MetaLeer EXCEPT !.schnittstellen = Schnittstellen(versorgungen, << >>) ],
                  None),
         Dokument("d2", "heizung.pdf", "kg420_heizung", "berechnung",
                  [ MetaLeer EXCEPT !.schnittstellen = Schnittstellen(<< >>, elektro) ],
                  None) >> :
        versorgungen \in Listen({ VersorgungEintrag(Some("HK1"), Some(Zahl(15000000)), None),
                                  VersorgungEintrag(Some("HK1"), Some(Unlesbar), None),
                                  KeinMapping }),
        elektro \in Listen({ ElektroEintrag(Some("hk1"), Some(Zahl(20000000)), Some("H-1")),
                             ElektroEintrag(Some("hk1"), Some(Unlesbar), Some("H-2")),
                             KeinMapping }) }

RohSudEingaben ==
    { << Dokument("d1", "heizung.pdf", "kg420_heizung", "plan",
                  [ MetaLeer EXCEPT !.sud = Sud(anforderungen, << >>) ], None),
         Dokument("d2", "tragwerk.pdf", "kg410_sanitaer", "plan",
                  [ MetaLeer EXCEPT !.sud = Sud(<< >>, bestaetigt) ], None) >> :
        anforderungen \in
            Listen({ SudEintrag(Some("D1"), None, None, Masse(4000, 4000), Ort(0, 0), None),
                     SudEintrag(Some("D2"), None, None, Some(KeinMapping), None, None),
                     SudEintrag(Some("D3"), None, None, None, Some(KeinMapping), None),
                     SudEintrag(None, None, None, Some(KeinMapping), None, None),
                     SudEintrag(Some("D4"), None, None,
                                Some(Dimensionen(Some(Unlesbar), Some(Zahl(4000)), None)),
                                None, None),
                     KeinMapping }),
        bestaetigt \in { << >>, << KeinMapping >>,
                         << SudEintrag(None, Some("d1"), None, Masse(4000, 4000), Ort(0, 0),
                                       None) >>,
                         << SudEintrag(None, Some("d1"), None, Some(KeinMapping), None,
                                       None) >> } }

RohEingaben ==
    [ pruefung : { "kollisionen" }, docs : RohKollisionsEingaben ]
      \cup [ pruefung : { "schnittstellen" }, docs : RohSchnittstellenEingaben ]
      \cup [ pruefung : { "sud" }, docs : RohSudEingaben ]

InitRohdaten ==
    /\ InitLaufAus
    /\ eingabe \in RohEingaben
    /\ ausgabe = << >>
    /\ lokale = << >>
    /\ schritt = "bereit"

\* await self._pruefe_kollisionen(auftrag) on raw metadata
RohKollisionenPruefung ==
    /\ schritt = "bereit"
    /\ eingabe.pruefung = "kollisionen"
    /\ ausgabe' = RohKollisionen(eingabe.docs)
    /\ schritt' = "fertig"
    /\ UNCHANGED << eingabe, lokale >>
    /\ UNCHANGED runVars

\* await self._pruefe_schnittstellen(auftrag) on raw metadata
RohSchnittstellenPruefung ==
    /\ schritt = "bereit"
    /\ eingabe.pruefung = "schnittstellen"
    /\ ausgabe' = RohSchnittstellen(eingabe.docs)
    /\ schritt' = "fertig"
    /\ UNCHANGED << eingabe, lokale >>
    /\ UNCHANGED runVars

\* await self._pruefe_sud_planung(auftrag) on raw metadata
RohSudPruefung ==
    /\ schritt = "bereit"
    /\ eingabe.pruefung = "sud"
    /\ ausgabe' = RohSudPlanung(eingabe.docs)
    /\ schritt' = "fertig"
    /\ UNCHANGED << eingabe, lokale >>
    /\ UNCHANGED runVars

NextRohdaten == RohKollisionenPruefung \/ RohSchnittstellenPruefung \/ RohSudPruefung

SpecRohdaten == InitRohdaten /\ [][NextRohdaten]_vars

\* the documents without the entries that are not mappings
OhneKeinMapping(docs) ==
    [ d \in 1..Len(docs) |->
        SudMappings(SchnittstellenMappings(
            MitElementen(docs[d], NurMappings(ElementeVon(docs[d]))))) ]

\* C17: in each of the three coordination checks a malformed entry (not a
\* mapping, or carrying non-mapping geometry, dimension or position data)
\* never makes the check raise
C17_FehlerhafteEingabeNieFatal ==
    schritt = "fertig" => ausgabe.exc = "none"

\* the collision check raised on a document holding a well-formed element
\* that collides and an element that is not a mapping
C17_Witness ==
    /\ schritt = "fertig"
    /\ eingabe.pruefung = "kollisionen"
    /\ Len(ElementeVon(eingabe.docs[1])) = 2
    /\ ElementeVon(eingabe.docs[1])[1] = Element(Some("a"), Box(0, 2, 0, 2), None)
    /\ ~ IstMapping(ElementeVon(eingabe.docs[1])[2])
    /\ ausgabe = [ exc |-> "AttributeError", wert |-> << >> ]
    /\ RohKollisionen(OhneKeinMapping(eingabe.docs)).wert # << >>

\* the penetration check raised on a requirement whose dimension data is
\* not a mapping
C17_WitnessSud ==
    /\ schritt = "fertig"
    /\ eingabe.pruefung = "sud"
    /\ ausgabe.exc = "AttributeError"

\* the interface check never raises, and the collision and penetration
\* checks skip what they recognise: the result is that of the documents
\* without the entries that are not mappings
C17_UebersprungeneEintraege ==
    schritt = "fertig" /\ ausgabe.exc = "none" =>
        CASE eingabe.pruefung = "kollisionen" ->
                ausgabe = RohKollisionen(OhneKeinMapping(eingabe.docs))
          [] eingabe.pruefung = "schnittstellen" ->
                ausgabe = RohSchnittstellen(OhneKeinMapping(eingabe.docs))
          [] eingabe.pruefung = "sud" ->
                ausgabe = RohSudPlanung(OhneKeinMapping(eingabe.docs))

\* the interface check does not raise
C17_SchnittstellenWerfenNicht ==
    schritt = "fertig" /\ eingabe.pruefung = "schnittstellen" => ausgabe.exc = "none"

---------------------------------------------------------------------------
(* claims about the class check of the building automation evaluator *)

\* the trade a system refers to and the class planned for it, as the loop
\* reads them
GewerkRef480(system) == Lower(OrStr(<< system.gewerk, Some("") >>)[1])

Klasse480(system) == OrStr(<< system.klasse, Some("D") >>)[1]

\* the planned class is worse than the required one in the order D < C < B < A
SchlechterAlsVorgabe(system) ==
    LET requirement == DictGet(PARAMS.kg480.bacs_classes, GewerkRef480(system))
    IN  /\ requirement # None
        /\ ClassRank(Klasse480(system)) < ClassRank(requirement[1])

\* C21: the kg480 evaluator yields kg480_<gewerk>_klasse exactly for the
\* trades of the catalog for which the context holds a system whose planned
\* class is worse than the required one; a system with an equal or better
\* class yields no such finding
C21_KlasseSchlechterGibtBefund ==
    schritt # "bereit" /\ eingabe.gewerk = "kg480_automation" =>
        LET systeme == eingabe.context.systeme
            ids == IdMenge(ausgabe[1].evaluate.wert)
        IN  \A k \in 1..Len(PARAMS.kg480.bacs_classes) :
                LET gewerk_ref == PARAMS.kg480.bacs_classes[k][1]
                IN  << "kg480_", gewerk_ref, "_klasse" >> \in ids
                      <=> \E i \in 1..Len(systeme) :
                              /\ GewerkRef480(systeme[i]) = gewerk_ref
                              /\ SchlechterAlsVorgabe(systeme[i])

\* the evaluator ran on a context whose only system is that of kg440 with
\* class A, which is better than the required class B, and returned the
\* finding kg480_kg440_klasse
C21_Witness ==
    /\ schritt # "bereit"
    /\ eingabe.gewerk = "kg480_automation"
    /\ eingabe.context.systeme = << [ gewerk |-> Some("kg440"), klasse |-> Some("A") ] >>
    /\ << "kg480_", "kg440", "_klasse" >> \in IdMenge(ausgabe[1].evaluate.wert)

\* the evaluator ran on a context whose only system is that of kg420 with
\* class C, which is worse than the required class A, and returned no class
\* finding
C21_WitnessSchlechter ==
    /\ schritt # "bereit"
    /\ eingabe.gewerk = "kg480_automation"
    /\ eingabe.context.systeme = << [ gewerk |-> Some("KG420"), klasse |-> Some("C") ] >>
    /\ << "kg480_", "kg420", "_klasse" >> \notin IdMenge(ausgabe[1].evaluate.wert)

\* what the evaluator does instead: it yields the finding exactly when the
\* planned class is better than the required one
C21_BesserGibtBefund ==
    schritt # "bereit" /\ eingabe.gewerk = "kg480_automation" =>
        LET systeme == eingabe.context.systeme
            ids == IdMenge(ausgabe[1].evaluate.wert)
        IN  \A k \in 1..Len(PARAMS.kg480.bacs_classes) :
                LET gewerk_ref == PARAMS.kg480.bacs_classes[k][1]
                    requirement == PARAMS.kg480.bacs_classes[k][2]
                IN  << "kg480_", gewerk_ref, "_klasse" >> \in ids
                      <=> \E i \in 1..Len(systeme) :
                              /\ GewerkRef480(systeme[i]) = gewerk_ref
                              /\ ClassRank(Klasse480(systeme[i])) > ClassRank(requirement)

---------------------------------------------------------------------------
(* specification of _pruefe_kollisionen applied to the same elements in two
   orders *)

\* a sequence in reverse order
Umkehrung(s) == [ i \in 1..Len(s) |-> s[Len(s) + 1 - i] ]

\* the document with its geometry elements in reverse order
ElementeUmgekehrt(dokument) ==
    IF dokument.metadaten.geometrie = None THEN dokument
    ELSE [ dokument EXCEPT !.metadaten.geometrie =
             Some([ dokument.metadaten.geometrie[1] EXCEPT !.elemente = Umkehrung(@) ]) ]

\* the orders in which the same elements may be handed in: the documents
\* swapped, the elements of each document swapped, or both
Vertauschungen(docs) ==
    LET innen == [ i \in 1..Len(docs) |-> ElementeUmgekehrt(docs[i]) ]
    IN  { Umkehrung(docs), innen, Umkehrung(innen) }

\* await self._pruefe_kollisionen(auftrag) for the same documents in another
\* order
KollisionenVertauscht ==
    /\ schritt = "fertig"
    /\ \E docs \in Vertauschungen(eingabe) :
          lokale' = [ geometrie_eintraege |-> lokale.geometrie_eintraege,
                      docs |-> docs,
                      befunde |-> PruefeKollisionen(docs) ]
    /\ schritt' = "vertauscht"
    /\ UNCHANGED << eingabe, ausgabe >>
    /\ UNCHANGED runVars

NextVertauscht == Kollisionen \/ KollisionenVertauscht

SpecVertauscht == InitKollision /\ [][NextVertauscht]_vars

\* what the findings of a list say about the two elements a and b, whatever
\* their order: the overlap area and, when positive, the vertical overlap
AngabenZumPaar(befunde, a, b) ==
    LET treffer == SelectSeq(befunde,
                     LAMBDA f : f.id \in { << "kollision", a.dokument.id, a.element.id[1],
                                              b.dokument.id, b.element.id[1] >>,
                                           << "kollision", b.dokument.id, b.element.id[1],
                                              a.dokument.id, a.element.id[1] >> })
    IN  [ i \in 1..Len(treffer) |-> treffer[i].beschreibung.zahlen ]

\* C22: collision detection is symmetric: for every two elements, handing the
\* documents or the elements in in the other order changes neither whether a
\* collision is reported for the pair nor the reported overlap area and
\* vertical overlap
C22_KollisionSymmetrisch ==
    schritt = "vertauscht" =>
        LET eintraege == lokale.geometrie_eintraege
        IN  \A i, k \in 1..Len(eintraege) :
                i < k => AngabenZumPaar(ausgabe, eintraege[i], eintraege[k])
                           = AngabenZumPaar(lokale.befunde, eintraege[i], eintraege[k])

\* the pair (a, b) collided with area 2 and vertical overlap 1 when the
\* heating document came first, and the same was reported with the
\* electrical document first
C22_Witness ==
    /\ schritt = "vertauscht"
    /\ lokale.docs = Umkehrung(eingabe)
    /\ \E i, k \in 1..Len(lokale.geometrie_eintraege) :
          LET a == lokale.geometrie_eintraege[i]
              b == lokale.geometrie_eintraege[k]
          IN  /\ a.element.id = Some("a")
              /\ b.element.id = Some("b")
              /\ a.bbox # b.bbox
              /\ AngabenZumPaar(ausgabe, a, b) = << << 2, 1 >> >>
              /\ AngabenZumPaar(lokale.befunde, a, b) = << << 2, 1 >> >>
              /\ lokale.befunde[1].id = << "kollision", "d2", "b", "d1", "a" >>

---------------------------------------------------------------------------
(* specification of _normiere_bbox applied to bounded raw boxes *)

\* the y extent of a raw box: min/max (also swapped or a single point),
\* origin and size (also negative), only a minimum, or nothing
YAngabenBbox ==
    { MinMaxY(a, b) : a, b \in { 0, MaxCoord } }
    \cup { [ y |-> Some(Zahl(1)), tiefe |-> Some(Zahl(0 - 1)) ],
           [ origin_y |-> Some(Text(0)), laenge |-> Some(Komma(2)) ],
           [ y_min |-> Some(Zahl(0)) ],
           EmptyMapping }

\* the z extent of a raw box: the same forms, and a minimum key that is
\* present without a value beside its alternative spelling
ZAngabenBbox ==
    { MinMaxZ(a, b) : a, b \in { 0, MaxCoord } }
    \cup { [ niveau |-> Some(Komma(1)), hoehe |-> Some(Zahl(0 - 1)) ],
           [ z |-> Some(Unlesbar), height |-> Some(Zahl(2)) ],
           [ z_min |-> Some(Zahl(1)) ],
           [ z_min |-> None, zmin |-> Some(Zahl(0)), z_max |-> Some(Zahl(1)) ],
           EmptyMapping }

BboxEingaben == { x @@ y @@ z : x \in XAngaben, y \in YAngabenBbox, z \in ZAngabenBbox }

InitBbox ==
    /\ InitLaufAus
    /\ eingabe \in BboxEingaben
    /\ ausgabe = << >>
    /\ lokale = << >>
    /\ schritt = "bereit"

\* bbox = _normiere_bbox(bbox_raw)
Normiere ==
    /\ schritt = "bereit"
    /\ ausgabe' = NormiereBbox(eingabe)
    /\ schritt' = "fertig"
    /\ UNCHANGED << eingabe, lokale >>
    /\ UNCHANGED runVars

NextBbox == Normiere

SpecBbox == InitBbox /\ [][NextBbox]_vars

\* some key of the list is present in the raw box with a readable number
Lesbar(raw_bbox, keys) ==
    \E i \in 1..Len(keys) :
        /\ keys[i] \in DOMAIN raw_bbox
        /\ raw_bbox[keys[i]] # None
        /\ raw_bbox[keys[i]][1].art # "unlesbar"

\* the raw box states an extent on the axis: a minimum and a maximum, or an
\* origin and a size
Brauchbar(raw_bbox, min_keys, max_keys, origin_keys, size_keys) ==
    \/ Lesbar(raw_bbox, min_keys) /\ Lesbar(raw_bbox, max_keys)
    \/ Lesbar(raw_bbox, origin_keys) /\ Lesbar(raw_bbox, size_keys)

BrauchbarX(raw_bbox) ==
    Brauchbar(raw_bbox, << "x_min", "xmin" >>, << "x_max", "xmax" >>,
              << "x", "origin_x" >>, << "width", "breite", "dx" >>)

BrauchbarY(raw_bbox) ==
    Brauchbar(raw_bbox, << "y_min", "ymin" >>, << "y_max", "ymax" >>,
              << "y", "origin_y" >>, << "depth", "tiefe", "dy", "laenge" >>)

BrauchbarZ(raw_bbox) ==
    Brauchbar(raw_bbox, << "z_min", "zmin" >>, << "z_max", "zmax" >>,
              << "z", "origin_z", "niveau" >>, << "height", "hoehe", "dz" >>)

\* C23: every box accepted by _normiere_bbox, given as (min, max) or as
\* (origin, size), also with negative sizes or swapped bounds, has min <= max
\* on the x, y and z axes; a box without a usable vertical extent gets
\* z_min = z_max = 0; a box without a usable x or y extent is rejected
C23_BboxNormiert ==
    schritt = "fertig" =>
        /\ ausgabe # None =>
              /\ ausgabe[1].x_min <= ausgabe[1].x_max
              /\ ausgabe[1].y_min <= ausgabe[1].y_max
              /\ ausgabe[1].z_min <= ausgabe[1].z_max
        /\ ausgabe # None /\ ~BrauchbarZ(eingabe) =>
              ausgabe[1].z_min = 0 /\ ausgabe[1].z_max = 0
        /\ ~BrauchbarX(eingabe) \/ ~BrauchbarY(eingabe) => ausgabe = None

\* a box given by origin 1 and width -1, a swapped y extent and a swapped z
\* extent was accepted with ordered bounds
C23_Witness ==
    /\ schritt = "fertig"
    /\ eingabe = [ x |-> Some(Zahl(1)), width |-> Some(Zahl(0 - 1)) ]
                   @@ MinMaxY(MaxCoord, 0) @@ MinMaxZ(MaxCoord, 0)
    /\ ausgabe = Some([ x_min |-> 0, x_max |-> 1, y_min |-> 0, y_max |-> MaxCoord,
                        z_min |-> 0, z_max |-> MaxCoord ])

\* a box with x and y extents and only a z minimum was accepted as flat
C23_WitnessFlach ==
    /\ schritt = "fertig"
    /\ eingabe = MinMaxX(0, 1) @@ MinMaxY(0, MaxCoord) @@ [ z_min |-> Some(Zahl(1)) ]
    /\ ausgabe # None
    /\ ausgabe[1].z_min = 0 /\ ausgabe[1].z_max = 0

\* a box without any x extent was rejected
C23_WitnessAbgelehnt ==
    /\ schritt = "fertig"
    /\ ~BrauchbarX(eingabe)
    /\ BrauchbarY(eingabe)
    /\ ausgabe = None

---------------------------------------------------------------------------
(* claims about the stages of a run *)

\* C24: in every project run each of the seven trades has its context built
\* and its rule evaluator run through the Check Engine, and the three
\* coordination checks run once across the whole project; stated for the runs
\* that end with status abgeschlossen: every trade has a result of its
\* _pruefe_gewerk task
C24_AlleSiebenGewerke ==
    \A o \in Objekte :
        pc[o] = "fertig" /\ status[o] = "abgeschlossen" =>
            \A g \in GewerkeType : gewerk_ergebnisse[o][g] # None

\* a run over a sanitary plan and an electrical plan ended with status
\* abgeschlossen; the heating, ventilation, communication, fire suppression
\* and automation evaluators never ran
C24_Witness ==
    /\ pc["o1"] = "fertig"
    /\ status["o1"] = "abgeschlossen"
    /\ Aufgaben("o1") = << "kg410_sanitaer", "kg440_elektro" >>
    /\ gewerk_ergebnisse["o1"]["kg410_sanitaer"] # None
    /\ gewerk_ergebnisse["o1"]["kg440_elektro"] # None
    /\ \A g \in GewerkeType \ { "kg410_sanitaer", "kg440_elektro" } :
          gewerk_ergebnisse["o1"][g] = None

\* what the code does: in a run that ends with status abgeschlossen exactly
\* the trades that have a document were evaluated, and the coordination
\* findings are those of one pass of the three checks over all documents
C24_GewerkeMitDokumenten ==
    \A o \in Objekte :
        pc[o] = "fertig" /\ status[o] = "abgeschlossen" =>
            /\ \A g \in GewerkeType :
                  gewerk_ergebnisse[o][g] # None
                    <=> \E i \in 1..Len(dokumente[o]) : dokumente[o][i].gewerk = g
            /\ koordinations_befunde[o] = PruefeKollisionen(dokumente[o])
                                            \o PruefeSchnittstellen(dokumente[o])
                                            \o PruefeSudPlanung(dokumente[o])

\* the geometry, interface and penetration collections of a list of documents
Sammlungen(docs) ==
    [ i \in 1..Len(docs) |-> [ geometrie |-> docs[i].metadaten.geometrie,
                               schnittstellen |-> docs[i].metadaten.schnittstellen,
                               sud |-> docs[i].metadaten.sud ] ]

C25_KontextUnveraendert == [][eingabe' = eingabe]_vars

\* the terms of a legend: its values, stripped and lower-cased, without the
\* empty ones
Legendenbegriffe(legende) ==
    { Lower(Strip(legende.symbole[i][k])) :
        i \in 1..Len(legende.symbole), k \in 1..2 } \ { "" }

\* the mandatory keywords of the document's trade that occur in no term of
\* its legend
FehlendeBegriffe(dokument) ==
    { MandatoryLegendKeywords[dokument.gewerk][n] :
        n \in 1..Len(MandatoryLegendKeywords[dokument.gewerk]) }
      \ { keyword \in STRING :
            \E term \in Legendenbegriffe(dokument.metadaten.legende[1]) :
                Enthaelt(term, keyword) }

\* the formal findings of a run about one document
FormaleBefundeZu(o, dokument) ==
    SelectSeq(formale_befunde[o], LAMBDA f : f.document_id = dokument.id)

\* C26: the formal VDI 6026 legend check emits at most one finding per
\* document: none for a document that is no plan; for a plan none when every
\* mandatory keyword of its trade occurs in a legend term, exactly one
\* 'mittel' finding naming the missing keywords when one is missing, and
\* exactly one 'hinweis' finding when there is no legend or no evaluable term
C26_HoechstensEinLegendenbefund ==
    \A o \in Objekte :
        pc[o] \notin { "erstellt", "klassifiziere", "formal" } =>
            \A i \in 1..Len(dokumente[o]) :
                LET dokument == dokumente[o][i]
                    legende == dokument.metadaten.legende
                    befunde == FormaleBefundeZu(o, dokument)
                IN  /\ Len(befunde) <= 1
                    /\ IF dokument.document_type # "plan" THEN befunde = << >>
                       ELSE IF legende = None \/ Legendenbegriffe(legende[1]) = {}
                       THEN /\ Len(befunde) = 1
                            /\ befunde[1].prioritaet = "hinweis"
                       ELSE IF FehlendeBegriffe(dokument) = {} THEN befunde = << >>
                       ELSE /\ Len(befunde) = 1
                            /\ befunde[1].prioritaet = "mittel"
                            /\ { befunde[1].beschreibung.text[n] :
                                   n \in 1..Len(befunde[1].beschreibung.text) }
                                 = FehlendeBegriffe(dokument)

\* the formal stage ran on a sanitary plan whose legend names only
\* 'Kaltwasserleitung' and on a document that is no plan: one 'mittel' finding
\* naming abwasser and warmwasser, none for the other document
C26_Witness ==
    /\ pc["o1"] = "fach"
    /\ dokumente["o1"][1].metadaten.legende = LegendeUnvollstaendig
    /\ dokumente["o1"][2].document_type # "plan"
    /\ Len(formale_befunde["o1"]) = 1
    /\ formale_befunde["o1"][1].prioritaet = "mittel"
    /\ formale_befunde["o1"][1].beschreibung.text = << "abwasser", "warmwasser" >>

\* the formal stage ran on a plan whose legend has no evaluable term: one
\* 'hinweis' finding
C26_WitnessHinweis ==
    /\ pc["o1"] = "fach"
    /\ dokumente["o1"][1].metadaten.legende = LegendeOhneBegriffe
    /\ Len(FormaleBefundeZu("o1", dokumente["o1"][1])) = 1
    /\ FormaleBefundeZu("o1", dokumente["o1"][1])[1].prioritaet = "hinweis"

\* the formal stage ran on a plan with a complete legend: no finding
C26_WitnessVollstaendig ==
    /\ pc["o1"] = "fach"
    /\ dokumente["o1"][1].metadaten.legende = LegendeVollstaendig
    /\ FormaleBefundeZu("o1", dokumente["o1"][1]) = << >>

---------------------------------------------------------------------------
(* specification of the runs under the scheduling of the event loop *)

\* a step of the coroutine starte_pruefung of o or of one of its trade tasks
Schritt(o) ==
    \/ StartePruefung(o)
    \/ KlassifiziereDokumente(o)
    \/ FormalePruefung(o)
    \/ StarteFachpruefung(o)
    \/ \E g \in GewerkeType : PruefeGewerkTask(o, g)
    \/ SammleFachbefunde(o)
    \/ Koordinationspruefung(o)
    \/ BewerteUndSpeichere(o)

\* the orders of the fair runs: a sanitary plan without legend or with a
\* complete legend, and an electrical schema, under two order ids; the
\* sanitary evaluator raises or does not
InitFair ==
    /\ Init
    /\ dokumente["o1"][1].gewerk = "kg410_sanitaer"
    /\ dokumente["o1"][1].metadaten.legende \in { None, LegendeVollstaendig }
    /\ dokumente["o1"][2].document_type = "schema"
    /\ auftrag_id["o2"] = "a2"
    /\ \A g \in GewerkeType \ { "kg410_sanitaer" } : ~ evaluator_verhalten[g].raises

\* the event loop runs every coroutine that is ready; nothing a run awaits
\* waits for anything outside the process; a cancellation comes from the
\* caller and need not happen
SpecFair == InitFair /\ [][Next]_vars /\ \A o \in Objekte : WF_vars(Schritt(o))

\* C27: every run started by starte_pruefung eventually leaves status
\* 'laufend': it reaches 'abgeschlossen' or 'fehler' in every execution, also
\* when a check raises and when the run is cancelled while a branch is awaited
C27_VerlaesstLaufend ==
    \A o \in Objekte : (status[o] = "laufend") ~> (status[o] \in { "abgeschlossen", "fehler" })

\* a run was cancelled while it awaited its trade tasks: the coroutine is
\* over and the order still has status 'laufend'
C27_Witness ==
    /\ pc["o1"] = "abgebrochen"
    /\ status["o1"] = "laufend"
    /\ ergebnisse["a1"] = None

\* the status moves only along erstellt -> laufend -> abgeschlossen or
\* erstellt -> laufend -> fehler
C27_StatusFolge ==
    [][ \A o \in Objekte :
          status'[o] # status[o] =>
              << status[o], status'[o] >> \in { << "erstellt", "laufend" >>,
                                                << "laufend", "abgeschlossen" >>,
                                                << "laufend", "fehler" >> } ]_vars

\* a run that is not cancelled does leave 'laufend', also when a check raises
C27_OhneAbbruchVerlaesstLaufend ==
    \A o \in Objekte :
        (status[o] = "laufend")
          ~> (status[o] \in { "abgeschlossen", "fehler" } \/ pc[o] = "abgebrochen")

---------------------------------------------------------------------------
(* claims about the stored results and get_status *)

\* no call of starte_pruefung is under way and none was cancelled
KeinAufrufOffen == \A o \in Objekte : pc[o] \in { "erstellt", "fertig" }

\* C28: after any sequence of starte_pruefung calls on one coordinator, also
\* with a second call under an already used order id, a result entry exists
\* for an order id if and only if the order's status is 'abgeschlossen';
\* get_status never reports a non-zero anzahl_befunde together with status
\* 'laufend' or 'fehler'
C28_ErgebnisGenauWennAbgeschlossen ==
    KeinAufrufOffen =>
        \A a \in AuftragIds :
            aktive_auftraege[a] # None =>
                /\ ergebnisse[a] # None <=> status[aktive_auftraege[a][1]] = "abgeschlossen"
                /\ GetStatus(a).status \in { "laufend", "fehler" } =>
                      GetStatus(a).anzahl_befunde = 0

\* two calls under the order id a1 have returned: the run of the second order
\* object stored its findings, the run of the first ended with status
\* 'fehler' after it; get_status reports 'fehler' with a non-zero number of
\* findings
C28_Witness ==
    /\ KeinAufrufOffen
    /\ auftrag_id["o1"] = "a1" /\ auftrag_id["o2"] = "a1"
    /\ status["o2"] = "abgeschlossen"
    /\ aktive_auftraege["a1"] = Some("o1")
    /\ status["o1"] = "fehler"
    /\ ergebnisse["a1"] # None
    /\ GetStatus("a1").status = "fehler"
    /\ GetStatus("a1").anzahl_befunde > 0

\* the three per-priority counts of get_status sum to anzahl_befunde
C28_SummeDerPrioritaeten ==
    \A a \in AuftragIds :
        aktive_auftraege[a] # None =>
            GetStatus(a).befunde_nach_prioritaet.hoch
              + GetStatus(a).befunde_nach_prioritaet.mittel
              + GetStatus(a).befunde_nach_prioritaet.niedrig = GetStatus(a).anzahl_befunde

\* with order ids that are used once the result entry exists exactly for the
\* orders with status 'abgeschlossen'
C28_OhneWiederverwendung ==
    auftrag_id["o1"] # auftrag_id["o2"] =>
        \A a \in AuftragIds :
            aktive_auftraege[a] # None =>
                ( ergebnisse[a] # None <=> status[aktive_auftraege[a][1]] = "abgeschlossen" )

---------------------------------------------------------------------------
(* specification of _pruefe_schnittstellen applied to electrical documents
   that declare a supply more than once *)

Kapazitaeten29 == { None, Some(Zahl(Kw15)), Some(Zahl(Kw22)) }

\* an electrical document with the given supplies
ElektroDokument(id, filename, versorgungen) ==
    Dokument(id, filename, "kg440_elektro", "schema",
             [ MetaLeer EXCEPT !.schnittstellen = Schnittstellen(versorgungen, << >>) ], None)

\* the documents of an order: an electrical document with the supply HK1,
\* once or twice, a heating document with requirements on hk1 and WP, and a
\* second electrical document that may declare hk1 or WP again
MehrfachVersorgungen ==
    { << ElektroDokument("d1", "elektro1.pdf", erste),
         Dokument("d2", "heizung.pdf", "kg420_heizung", "berechnung",
                  [ MetaLeer EXCEPT !.schnittstellen = Schnittstellen(<< >>, elektro) ], None),
         ElektroDokument("d3", "elektro2.pdf", zweite) >> :
        erste \in { << VersorgungEintrag(Some("HK1"), k1, None) >> : k1 \in Kapazitaeten29 }
                  \cup { << VersorgungEintrag(Some("HK1"), k1, None),
                            VersorgungEintrag(Some(" HK1"), k2, None) >> :
                           k1, k2 \in Kapazitaeten29 },
        zweite \in { << >> }
                   \cup { << VersorgungEintrag(Some(referenz), k3, None) >> :
                            referenz \in { "hk1", "WP" }, k3 \in Kapazitaeten29 },
        elektro \in { << ElektroEintrag(Some("hk1"), Some(Zahl(Kw20)), Some("H-1")) >>,
                      << ElektroEintrag(Some(" HK1"), Some(Zahl(Kw18)), Some("H-1")),
                         ElektroEintrag(Some("WP"), Some(Zahl(Kw20)), Some("H-2")) >> } }

InitVersorgung ==
    /\ InitLaufAus
    /\ eingabe \in MehrfachVersorgungen
    /\ ausgabe = << >>
    /\ lokale = << >>
    /\ schritt = "bereit"

NextVersorgung == SchnittstellenPruefung

SpecVersorgung == InitVersorgung /\ [][NextVersorgung]_vars

\* the normalized reference key of a raw supply entry
SchluesselVon(eintrag) ==
    Lower(Strip(OrStr(<< eintrag.referenz, eintrag.kreis, eintrag.id, eintrag.name,
                         Some("") >>)[1]))

\* the raw supplies of a document
RohVersorgungen(dokument) ==
    IF dokument.metadaten.schnittstellen = None THEN << >>
    ELSE dokument.metadaten.schnittstellen[1].versorgungen

\* a supply with the same key follows the entry i of document d, in the same
\* or in a later electrical document
SpaeterNochmal(docs, d, i) ==
    \E e \in d..Len(docs) :
        /\ docs[e].gewerk = "kg440_elektro"
        /\ \E k \in 1..Len(RohVersorgungen(docs[e])) :
              /\ e > d \/ k > i
              /\ SchluesselVon(RohVersorgungen(docs[e])[k])
                   = SchluesselVon(RohVersorgungen(docs[d])[i])

\* the documents without the supplies that are declared again later
NurLetzteVersorgung(docs) ==
    [ d \in 1..Len(docs) |->
        IF docs[d].metadaten.schnittstellen = None THEN docs[d]
        ELSE [ docs[d] EXCEPT !.metadaten.schnittstellen =
                 Some([ docs[d].metadaten.schnittstellen[1] EXCEPT !.versorgungen =
                          Flatten([ i \in 1..Len(@) |->
                                      IF SpaeterNochmal(docs, d, i) THEN << >>
                                      ELSE << @[i] >> ]) ]) ] ]

\* some supply of the documents is declared again later
MehrfachVersorgt(docs) ==
    \E d \in 1..Len(docs) :
        /\ docs[d].gewerk = "kg440_elektro"
        /\ \E i \in 1..Len(RohVersorgungen(docs[d])) : SpaeterNochmal(docs, d, i)

\* C29: when several electrical supplies share the same case-insensitively
\* normalized reference key, every heating requirement referencing that key
\* is reconciled against the last one in document and entry order; the
\* findings are those of the documents without the earlier supplies
C29_LetzteVersorgungZaehlt ==
    schritt = "fertig" =>
        /\ ausgabe = PruefeSchnittstellen(NurLetzteVersorgung(eingabe))
        /\ \A k \in DOMAIN lokale.elektro_schnittstellen :
              \E d \in 1..Len(eingabe) :
                  /\ lokale.elektro_schnittstellen[k].dokument = eingabe[d]
                  /\ \E i \in 1..Len(RohVersorgungen(eingabe[d])) :
                        /\ SchluesselVon(RohVersorgungen(eingabe[d])[i]) = k
                        /\ ~ SpaeterNochmal(eingabe, d, i)

\* HK1 is declared with 15 kW and again with 22 kW in the first electrical
\* document and without capacity in the second; the requirement of 20 kW on
\* hk1 got the one finding 'capacity unknown' that refers to the second
\* document
C29_Witness ==
    /\ schritt = "fertig"
    /\ RohVersorgungen(eingabe[1])
         = << VersorgungEintrag(Some("HK1"), Some(Zahl(Kw15)), None),
              VersorgungEintrag(Some(" HK1"), Some(Zahl(Kw22)), None) >>
    /\ RohVersorgungen(eingabe[3]) = << VersorgungEintrag(Some("hk1"), None, None) >>
    /\ Len(ausgabe) = 1
    /\ ausgabe[1].id = << "schnittstelle", "d2", "hk1", "unbekannt" >>
    /\ ausgabe[1].plan_referenz = << "H-1", "elektro2.pdf" >>

\* HK1 is declared with 15 kW and again with 22 kW: the requirement of 20 kW
\* on hk1 got no finding
C29_WitnessOhneBefund ==
    /\ schritt = "fertig"
    /\ RohVersorgungen(eingabe[1])
         = << VersorgungEintrag(Some("HK1"), Some(Zahl(Kw15)), None),
              VersorgungEintrag(Some(" HK1"), Some(Zahl(Kw22)), None) >>
    /\ RohVersorgungen(eingabe[3]) = << >>
    /\ Len(lokale.heizung_schnittstellen) = 1
    /\ ausgabe = << >>

---------------------------------------------------------------------------
(* specification of _pruefe_sud_planung applied to documents that confirm a
   penetration more than once *)

\* a confirmation of D1 that matches the requirement in level, dimensions
\* and position
GenaueBestaetigung(referenz, plan_ref) ==
    SudEintrag(None, Some(referenz), Some("eg"), Masse(4000, 4000), Ort(10000, 20000),
               Some(plan_ref))

\* the first confirmation of D1: right or wrong level, matching, deviating
\* or missing dimensions, matching or deviating position
ErsteBestaetigungen ==
    { SudEintrag(None, Some(referenz), Some(geschoss), dimensionen, lage, Some("B-1")) :
        referenz \in { "d1", "D1 " },
        geschoss \in { "eg", "OG" },
        dimensionen \in { None, Masse(4000, 4000), Masse(3000, 3000) },
        lage \in { Ort(10000, 20000), Ort(5000, 0) } }

\* the documents of an order: the requirement D1, a document that confirms
\* it once or twice, and a document that may confirm it again
MehrfachBestaetigungen ==
    { << Dokument("d1", "heizung.pdf", "kg420_heizung", "plan",
                  [ MetaLeer EXCEPT !.sud =
                      Sud(<< SudEintrag(Some("D1"), None, geschoss, Masse(4000, 4000),
                                        Ort(10000, 20000), Some("S-1")) >>, << >>) ], None),
         Dokument("d2", "tragwerk1.pdf", "kg410_sanitaer", "plan",
                  [ MetaLeer EXCEPT !.sud = Sud(<< >>, << erste >> \o zweite) ], None),
         Dokument("d3", "tragwerk2.pdf", "kg410_sanitaer", "plan",
                  [ MetaLeer EXCEPT !.sud = Sud(<< >>, dritte) ], None) >> :
        geschoss \in { None, Some("EG") },
        erste \in ErsteBestaetigungen,
        zweite \in { << >>, << GenaueBestaetigung("D1 ", "B-2") >> },
        dritte \in { << >>, << GenaueBestaetigung("D1", "B-3") >>,
                     << SudEintrag(None, Some("d1"), Some("OG"), None, None, Some("B-3")) >> } }

InitBestaetigung ==
    /\ InitLaufAus
    /\ eingabe \in MehrfachBestaetigungen
    /\ ausgabe = << >>
    /\ lokale = << >>
    /\ schritt = "bereit"

NextBestaetigung == SudPruefung

SpecBestaetigung == InitBestaetigung /\ [][NextBestaetigung]_vars

\* the normalized reference id of a raw confirmation
KennungVon(bestaetigung) ==
    Lower(Strip(OrStr(<< bestaetigung.referenz, bestaetigung.id, bestaetigung.zuordnung,
                         Some("") >>)[1]))

\* the raw confirmations of a document
RohBestaetigungen(dokument) ==
    IF dokument.metadaten.sud = None THEN << >> ELSE dokument.metadaten.sud[1].bestaetigt

\* a confirmation with the same id precedes the entry i of document d, in
\* the same or in an earlier document
SchonBestaetigt(docs, d, i) ==
    \E e \in 1..d :
        \E k \in 1..Len(RohBestaetigungen(docs[e])) :
            /\ e < d \/ k < i
            /\ KennungVon(RohBestaetigungen(docs[e])[k])
                 = KennungVon(RohBestaetigungen(docs[d])[i])

\* the documents without the confirmations that repeat an earlier one
NurErsteBestaetigung(docs) ==
    [ d \in 1..Len(docs) |->
        IF docs[d].metadaten.sud = None THEN docs[d]
        ELSE [ docs[d] EXCEPT !.metadaten.sud =
                 Some([ docs[d].metadaten.sud[1] EXCEPT !.bestaetigt =
                          Flatten([ i \in 1..Len(@) |->
                                      IF SchonBestaetigt(docs, d, i) THEN << >>
                                      ELSE << @[i] >> ]) ]) ] ]

\* C30: when several confirmations carry the same case-insensitively equal
\* reference id, a penetration requirement is compared only against the
\* first one in document and entry order: the findings are those of the
\* documents without the later confirmations, also when a later confirmation
\* matches level, dimensions and position exactly
C30_ErsteBestaetigungZaehlt ==
    schritt = "fertig" =>
        /\ ausgabe = PruefeSudPlanung(NurErsteBestaetigung(eingabe))
        /\ \A n \in 1..Len(ausgabe) :
              ausgabe[n].plan_referenz = << "S-1", "B-1" >>

\* the first confirmation of D1 has deviating dimensions, the second one in
\* the same document and the one in the next document match exactly: the
\* requirement got the dimension finding against the first
C30_Witness ==
    /\ schritt = "fertig"
    /\ RohBestaetigungen(eingabe[2])
         = << SudEintrag(None, Some("d1"), Some("eg"), Masse(3000, 3000),
                         Ort(10000, 20000), Some("B-1")),
              GenaueBestaetigung("D1 ", "B-2") >>
    /\ RohBestaetigungen(eingabe[3]) = << GenaueBestaetigung("D1", "B-3") >>
    /\ Len(lokale.bestaetigungen["d1"]) = 3
    /\ Len(ausgabe) = 1
    /\ ausgabe[1].id = << "sud", "d1", "d1", "abmessung" >>
    /\ ausgabe[1].plan_referenz = << "S-1", "B-1" >>

\* the first confirmation matches exactly and a later one is on another
\* level: no finding
C30_WitnessOhneBefund ==
    /\ schritt = "fertig"
    /\ RohBestaetigungen(eingabe[2]) = << GenaueBestaetigung("d1", "B-1") >>
    /\ RohBestaetigungen(eingabe[3])
         = << SudEintrag(None, Some("d1"), Some("OG"), None, None, Some("B-3")) >>
    /\ eingabe[1].metadaten.sud[1].anforderungen[1].geschoss = Some("EG")
    /\ ausgabe = << >>

=============================================================================
